---- MODULE Spec2Model ----
(***************************************************************************)
(* DMARC-Analyzer: model of the extraction / classification / analysis     *)
(* pipeline (src/extractors, src/classifiers, src/analyzers).              *)
(*                                                                         *)
(* File names, paths and document texts are TLA+ strings; the Python       *)
(* string operations the code relies on (in, lower, endswith, pathlib's    *)
(* name / stem / suffix) are defined below by what they compute.           *)
(***************************************************************************)
EXTENDS Integers, Sequences, FiniteSets, TLC

(***************************************************************************)
(* Bounds of the model.                                                    *)
(***************************************************************************)
\* number of _process_file calls made from outside on one extractor
MaxCalls == 3

(***************************************************************************)
(* Python string primitives.                                               *)
(***************************************************************************)
UpperChars == "ABCDEFGHIJKLMNOPQRSTUVWXYZ"

LowerChars == "abcdefghijklmnopqrstuvwxyz"

Max(S) == CHOOSE m \in S : \A n \in S : n <= m

\* s[i] as a one-character string
CharAt(s, i) == SubSeq(s, i, i)

\* upper-case letter -> lower-case letter
LowerMap ==
    [c \in {CharAt(UpperChars, i) : i \in 1..Len(UpperChars)} |->
        CharAt(LowerChars, CHOOSE j \in 1..Len(UpperChars) : CharAt(UpperChars, j) = c)]

\* str.lower() on one character
LowerChar(c) == IF c \in DOMAIN LowerMap THEN LowerMap[c] ELSE c

RECURSIVE lower(_)
\* str.lower()
lower(s) ==
    IF Len(s) = 0 THEN ""
    ELSE IF Len(s) = 1 THEN LowerChar(s)
    ELSE lower(SubSeq(s, 1, Len(s) \div 2)) \o lower(SubSeq(s, Len(s) \div 2 + 1, Len(s)))

\* kw in s
Contains(s, kw) ==
    \E i \in 1..(Len(s) - Len(kw) + 1) : SubSeq(s, i, i + Len(kw) - 1) = kw

\* s.endswith(sfx)
endswith(s, sfx) ==
    /\ Len(sfx) <= Len(s)
    /\ SubSeq(s, Len(s) - Len(sfx) + 1, Len(s)) = sfx

\* s.rfind(c) as a 1-based index, 0 when c does not occur
rfind(s, c) ==
    LET I == {i \in 1..Len(s) : CharAt(s, i) = c}
    IN  IF I = {} THEN 0 ELSE Max(I)

\* pathlib: PurePath.name, the last component of a path
PathName(p) == SubSeq(p, rfind(p, "/") + 1, Len(p))

\* pathlib: PurePath.suffix, the last dot-suffix of the name ('' for none,
\* for a leading dot and for a trailing dot)
PathSuffix(p) ==
    LET name == PathName(p)
        i    == rfind(name, ".")
    IN  IF 1 < i /\ i < Len(name) THEN SubSeq(name, i, Len(name)) ELSE ""

\* pathlib: PurePath.stem, the name without its suffix
PathStem(p) ==
    LET name == PathName(p)
        i    == rfind(name, ".")
    IN  IF 1 < i /\ i < Len(name) THEN SubSeq(name, 1, i - 1) ELSE name

\* pathlib: dir / name
Join(dir, name) == dir \o "/" \o name

(***************************************************************************)
(* File contents.  Every content is a record of one shape:                 *)
(*   kind     what the bytes really are (doc, zip, gz, tar, eml)           *)
(*   ok       FALSE for a corrupt container (bad signature, truncated)     *)
(*   text     the bytes read as text (what open(..., 'r') returns)         *)
(*   members  the container's entries, in the order they are walked; an    *)
(*            entry is [name, multipart, data]: name is the member's path  *)
(*            inside the archive or the mail part's filename ("" = None)   *)
(*   body     what a parser makes of a document (see the classifier)       *)
(* Two files have identical bytes iff their contents are equal records.    *)
(***************************************************************************)
NoBody == [fmt |-> "none"]

Doc(text, body) == [kind |-> "doc", ok |-> TRUE, text |-> text, members |-> <<>>, body |-> body]

Entry(name, data) == [name |-> name, multipart |-> FALSE, data |-> data]

Zip(members) == [kind |-> "zip", ok |-> TRUE, text |-> "PK", members |-> members, body |-> NoBody]

Tar(members) == [kind |-> "tar", ok |-> TRUE, text |-> "ustar", members |-> members, body |-> NoBody]

\* a gzip stream holds one unnamed member
Gz(inner) == [kind |-> "gz", ok |-> TRUE, text |-> "gz", members |-> <<Entry("", inner)>>, body |-> NoBody]

Eml(parts) == [kind |-> "eml", ok |-> TRUE, text |-> "MIME-Version: 1.0", members |-> parts, body |-> NoBody]

Corrupt(kind) == [kind |-> kind, ok |-> FALSE, text |-> "garbage", members |-> <<>>, body |-> NoBody]

\* a message attached to a mail (a message/rfc822 part): its payload is a
\* message, get_payload(decode=True) gives None
AttachedMessage ==
    [kind |-> "rfc822", ok |-> TRUE, text |-> "Subject: original", members |-> <<>>, body |-> NoBody]

(***************************************************************************)
(* FileExtractor (src/extractors/file_extractor.py).                       *)
(*                                                                         *)
(* The methods are operators on the extractor's state x:                   *)
(*   processed_files  set of str(path) already passed through the guard    *)
(*   extracted_files  list of output paths, in emission order              *)
(*   outdir           the output directory: file name -> content           *)
(*   tmp_count        number of temporary directories created so far;      *)
(*                    tempfile gives every one a name not used before      *)
(*   dispatched       history: path -> number of times the dispatch table  *)
(*                    of _process_file was entered for it                  *)
(***************************************************************************)
\* FileExtractor.output_dir
OutputDir == "extracted"

\* the directory handed to extract_all
InputRoot == "in"

\* a directory that does not exist
MissingRoot == "nowhere"

\* the extracted directory of a run that made none
MissingOutput == "nowhere/extracted"

\* chars read by _detect_and_extract
SniffLen == 1000

Min(a, b) == IF a <= b THEN a ELSE b

\* tempfile.TemporaryDirectory(): the n-th directory of the run
TempDir(n) == "/tmp/tmp" \o ToString(n)

Exists(dir, name) == name \in DOMAIN dir

\* dir with one more file (shutil.copy2 onto a path)
WriteFile(dir, name, data) ==
    [n \in DOMAIN dir \cup {name} |-> IF n = name THEN data ELSE dir[n]]

RECURSIVE NextFreeName(_, _, _, _, _)
\* while output_path.exists(): output_path = f"{base}_{counter}{ext}"; counter += 1
NextFreeName(dir, candidate, base, ext, counter) ==
    IF Exists(dir, candidate)
    THEN NextFreeName(dir, base \o "_" \o ToString(counter) \o ext, base, ext, counter + 1)
    ELSE candidate

\* the collision-safe name that tries the suffix _1 only
UniqueName_one_retry(dir, path) ==
    IF Exists(dir, PathStem(path) \o PathSuffix(path))
    THEN PathStem(path) \o "_1" \o PathSuffix(path)
    ELSE PathStem(path) \o PathSuffix(path)

\* the collision-safe output name of a source path in directory dir
UniqueName(dir, path) ==
    NextFreeName(dir, PathStem(path) \o PathSuffix(path), PathStem(path), PathSuffix(path), 1)

\* _copy_html: copy under a free name, record the output path
_copy_html(x, html_path, data) ==
    LET name == UniqueName(x.outdir, html_path)
    IN  [x EXCEPT !.outdir = WriteFile(@, name, data),
                  !.extracted_files = Append(@, Join(OutputDir, name))]

\* _copy_xml: the same for an XML document
_copy_xml(x, xml_path, data) ==
    LET name == UniqueName(x.outdir, xml_path)
    IN  [x EXCEPT !.outdir = WriteFile(@, name, data),
                  !.extracted_files = Append(@, Join(OutputDir, name))]

\* f.read(1000)
SniffPrefix(data) == SubSeq(data.text, 1, Min(SniffLen, Len(data.text)))

LooksHtml(content) == Contains(content, "<!DOCTYPE html") \/ Contains(lower(content), "<html")

LooksXml(content) == Contains(content, "<?xml")

\* _detect_and_extract: reading as text with errors='ignore' does not fail,
\* so the archive fallback of the except branch is not entered
_detect_and_extract(x, file_path, data) ==
    LET content == SniffPrefix(data)
    IN  IF LooksHtml(content) THEN _copy_html(x, file_path, data)
        ELSE IF LooksXml(content) THEN _copy_xml(x, file_path, data)
        ELSE x

\* zipfile.ZipFile(path) succeeds
OpensAsZip(data) == data.kind = "zip" /\ data.ok

\* gzip.open(path).read() succeeds
OpensAsGz(data) == data.kind = "gz" /\ data.ok

\* tarfile.open(path, 'r:*') succeeds: a tar, or a compressed tar
OpensAsTar(data) ==
    \/ data.kind = "tar" /\ data.ok
    \/ /\ data.kind = "gz" /\ data.ok
       /\ data.members[1].data.kind = "tar" /\ data.members[1].data.ok

TarMembers(data) == IF data.kind = "tar" THEN data.members ELSE data.members[1].data.members

\* email.message_from_binary_file is lenient: bytes that are no message
\* parse as a message without attachments
MailParts(data) == IF data.kind = "eml" /\ data.ok THEN data.members ELSE <<>>

NewTemp(x) == [x EXCEPT !.tmp_count = @ + 1]

RECURSIVE _process_file(_, _, _)
RECURSIVE WalkMembers(_, _, _, _)
RECURSIVE WalkParts(_, _, _)

\* for extracted_file in temp_path.rglob('*'): self._process_file(extracted_file)
WalkMembers(x, temp_path, members, i) ==
    IF i > Len(members) THEN x
    ELSE WalkMembers(_process_file(x, Join(temp_path, members[i].name), members[i].data),
                     temp_path, members, i + 1)

\* _extract_zip
_extract_zip(x, zip_path, data) ==
    LET x1 == NewTemp(x)
    IN  IF OpensAsZip(data)
        THEN WalkMembers(x1, TempDir(x1.tmp_count), data.members, 1)
        ELSE x1

\* _extract_gz that keeps the .gz name for the decompressed stream
_extract_gz_keeps_name(x, gz_path, data) ==
    LET x1 == NewTemp(x)
    IN  IF OpensAsGz(data)
        THEN _process_file(x1, Join(TempDir(x1.tmp_count), PathName(gz_path)), data.members[1].data)
        ELSE x1

\* _extract_gz: the single stream is written to temp/<stem of the gz name>
_extract_gz(x, gz_path, data) ==
    LET x1 == NewTemp(x)
    IN  IF OpensAsGz(data)
        THEN _process_file(x1, Join(TempDir(x1.tmp_count), PathStem(gz_path)), data.members[1].data)
        ELSE x1

\* _extract_tar
_extract_tar(x, tar_path, data) ==
    LET x1 == NewTemp(x)
    IN  IF OpensAsTar(data)
        THEN WalkMembers(x1, TempDir(x1.tmp_count), TarMembers(data), 1)
        ELSE x1

\* open(temp_path, 'wb') and f.write(part.get_payload(decode=True)) succeed:
\* the filename names no directory below the fresh temporary directory and
\* the payload is bytes
WritesPart(part) == ~Contains(part.name, "/") /\ part.data.kind # "rfc822"

\* for part in msg.walk(): skip multipart parts and parts without a
\* filename; every other part gets a temporary directory of its own.  The
\* try of _extract_eml encloses the loop: a part that cannot be written
\* ends it
WalkParts(x, parts, i) ==
    IF i > Len(parts) THEN x
    ELSE IF parts[i].multipart \/ parts[i].name = "" THEN WalkParts(x, parts, i + 1)
    ELSE LET x1 == NewTemp(x)
         IN  IF ~WritesPart(parts[i]) THEN x1
             ELSE WalkParts(_process_file(x1, Join(TempDir(x1.tmp_count), parts[i].name),
                                          parts[i].data),
                            parts, i + 1)

\* _extract_eml
_extract_eml(x, eml_path, data) == WalkParts(x, MailParts(data), 1)

\* the dispatch table of _process_file
Dispatch(x, file_path, data) ==
    LET file_ext == lower(PathSuffix(file_path))
    IN  CASE file_ext = ".zip" -> _extract_zip(x, file_path, data)
          [] file_ext = ".gz" -> _extract_gz(x, file_path, data)
          [] file_ext \in {".tar", ".tgz"} -> _extract_tar(x, file_path, data)
          [] file_ext = ".eml" -> _extract_eml(x, file_path, data)
          [] file_ext \in {".html", ".htm"} -> _copy_html(x, file_path, data)
          [] file_ext = ".xml" -> _copy_xml(x, file_path, data)
          [] OTHER -> _detect_and_extract(x, file_path, data)

Bump(f, k) == [j \in DOMAIN f \cup {k} |-> IF j = k THEN (IF k \in DOMAIN f THEN f[k] + 1 ELSE 1) ELSE f[j]]

\* _process_file without the processed_files guard
_process_file_unguarded(x, file_path, data) ==
    Dispatch([x EXCEPT !.processed_files = @ \cup {file_path},
                       !.dispatched = Bump(@, file_path)],
             file_path, data)

\* _process_file
_process_file(x, file_path, data) ==
    IF file_path \in x.processed_files THEN x
    ELSE Dispatch([x EXCEPT !.processed_files = @ \cup {file_path},
                            !.dispatched = Bump(@, file_path)],
                  file_path, data)

RECURSIVE ProcessAll(_, _, _)
\* for file_path in input_path.rglob('*'): self._process_file(file_path)
ProcessAll(x, files, i) ==
    IF i > Len(files) THEN x
    ELSE ProcessAll(_process_file(x, files[i].path, files[i].data), files, i + 1)

\* an extract_all that returns self.extracted_files for a missing directory
extract_all_returns_list(x, exists, files) ==
    IF ~exists THEN [x |-> x, returns |-> x.extracted_files]
    ELSE LET x2 == ProcessAll(x, files, 1)
         IN  [x |-> x2, returns |-> x2.extracted_files]

\* extract_all: the state it leaves and the list it returns; exists tells
\* whether the input directory is there, files are its files in the order
\* of the walk
extract_all(x, exists, files) ==
    IF ~exists THEN [x |-> x, returns |-> <<>>]
    ELSE LET x2 == ProcessAll(x, files, 1)
         IN  [x |-> x2, returns |-> x2.extracted_files]

\* sum(1 for f in files if f.endswith(sfx) for one sfx of sfxs)
CountEndswith(files, sfxs) ==
    Cardinality({i \in 1..Len(files) : \E sfx \in sfxs : endswith(files[i], sfx)})

\* FileExtractor.get_statistics
get_statistics(x) ==
    [total_files_processed |-> Cardinality(x.processed_files),
     total_files_extracted |-> Len(x.extracted_files),
     html_files |-> CountEndswith(x.extracted_files, {".html", ".htm"}),
     xml_files |-> CountEndswith(x.extracted_files, {".xml"}),
     output_directory |-> OutputDir]

(***************************************************************************)
(* Parsed documents.                                                       *)
(*                                                                         *)
(* XML: body = [fmt |-> "xml", wellformed, root]; an element is            *)
(* [tag, text, children], text "" standing for None or empty text.         *)
(* ElementTree's find / findall are defined on these trees: './/tag'       *)
(* searches the descendants of the element (never the element itself) in   *)
(* document order, 'tag' its children, 'a/b' the b children of its a       *)
(* children.                                                               *)
(*                                                                         *)
(* HTML: body = [fmt |-> "html", free, tables]; free is the text outside   *)
(* tables, a table is a sequence of rows (tr), a row a sequence of cells   *)
(* [th, text] (th TRUE for a th cell, FALSE for a td cell).                *)
(***************************************************************************)
Elem(tag, text, children) == [tag |-> tag, text |-> text, children |-> children]

\* the None a failed find returns
NoElem == [tag |-> "#None", text |-> "", children |-> <<>>]

IsNone(e) == e.tag = "#None"

XmlBody(root) == [fmt |-> "xml", wellformed |-> TRUE, root |-> root]

\* markup that ET.parse rejects
BrokenXml == [fmt |-> "xml", wellformed |-> FALSE, root |-> NoElem]

HtmlBody(free, tables) == [fmt |-> "html", free |-> free, tables |-> tables]

\* markup that BeautifulSoup(content, 'html.parser') rejects with an exception
RejectedHtml == [fmt |-> "rejected"]

Td(text) == [th |-> FALSE, text |-> text]

Th(text) == [th |-> TRUE, text |-> text]

RECURSIVE Descendants(_)
RECURSIVE DescendantsOf(_, _)

\* the descendants of the elements cs[i..], in document order
DescendantsOf(cs, i) ==
    IF i > Len(cs) THEN <<>>
    ELSE <<cs[i]>> \o Descendants(cs[i]) \o DescendantsOf(cs, i + 1)

\* element.iter() without the element itself
Descendants(e) == DescendantsOf(e.children, 1)

First(seq) == IF Len(seq) = 0 THEN NoElem ELSE seq[1]

\* element.findall('.//tag')
findall_desc(e, tag) == SelectSeq(Descendants(e), LAMBDA c : c.tag = tag)

\* element.find('.//tag')
find_desc(e, tag) == First(findall_desc(e, tag))

\* element.find('tag')
find_child(e, tag) == First(SelectSeq(e.children, LAMBDA c : c.tag = tag))

RECURSIVE ChildrenOfAll(_, _, _)
\* the tag-children of the elements es[i..], in document order
ChildrenOfAll(es, tag, i) ==
    IF i > Len(es) THEN <<>>
    ELSE SelectSeq(es[i].children, LAMBDA c : c.tag = tag) \o ChildrenOfAll(es, tag, i + 1)

\* element.find('a/b')
find_path(e, a, b) == First(ChildrenOfAll(SelectSeq(e.children, LAMBDA c : c.tag = a), b, 1))

\* ET.parse(path) succeeds
ParsesAsXml(data) == data.kind = "doc" /\ data.body.fmt = "xml" /\ data.body.wellformed

\* BeautifulSoup(content, 'html.parser') returns a soup
ParsesAsHtml(data) == data.body.fmt # "rejected"

RECURSIVE JoinTexts(_, _)
JoinTexts(cells, i) ==
    IF i > Len(cells) THEN ""
    ELSE "\n" \o cells[i].text \o JoinTexts(cells, i + 1)

RECURSIVE RowsText(_, _)
RowsText(rows, i) ==
    IF i > Len(rows) THEN "" ELSE JoinTexts(rows[i], 1) \o RowsText(rows, i + 1)

RECURSIVE TablesText(_, _)
TablesText(tables, i) ==
    IF i > Len(tables) THEN "" ELSE RowsText(tables[i], 1) \o TablesText(tables, i + 1)

RECURSIVE ElemsText(_, _)
ElemsText(es, i) ==
    IF i > Len(es) THEN "" ELSE es[i].text \o "\n" \o ElemsText(es, i + 1)

\* soup.find_all('table')
find_all_tables(data) ==
    IF data.body.fmt = "html" THEN data.body.tables ELSE <<>>

\* soup.get_text(): the text nodes of the document
get_text(data) ==
    IF data.body.fmt = "html" THEN data.body.free \o TablesText(data.body.tables, 1)
    ELSE IF data.body.fmt = "xml" /\ data.body.wellformed
         THEN ElemsText(<<data.body.root>> \o Descendants(data.body.root), 1)
    ELSE data.text

(***************************************************************************)
(* ReportClassifier (src/classifiers/report_classifier.py).                *)
(*                                                                         *)
(* The classifier's state c:                                               *)
(*   rua_dir, ruf_dir     the files of the two directories: name -> content*)
(*   rua_files, ruf_files, unclassified_files   the three lists            *)
(***************************************************************************)
RuaDir == "rua"

RufDir == "ruf"

\* the row count a table must exceed for the aggregate boost
BoostRows == 5

\* what either structural boost adds to its score
BoostScore == 2

rua_keywords ==
    <<"aggregate report", "aggregate feedback", "report metadata", "policy published",
      "source ip", "message count", "policy evaluated", "dmarc aggregate">>

ruf_keywords ==
    <<"forensic report", "failure report", "auth failure", "authentication failure",
      "original message", "message headers", "delivery result", "authentication-results",
      "forensic feedback", "dmarc forensic">>

HasElem(root, tag) == ~IsNone(find_desc(root, tag))

\* _classify_xml that looks for auth_failure first
_classify_xml_failure_first(xml_path, data) ==
    IF ~ParsesAsXml(data) THEN "unclassified"
    ELSE LET root == data.body.root
         IN  IF HasElem(root, "auth_failure") THEN "ruf"
             ELSE IF HasElem(root, "report_metadata") /\ HasElem(root, "record") THEN "rua"
             ELSE IF root.tag = "feedback" /\ HasElem(root, "policy_published")
                     /\ HasElem(root, "record") THEN "rua"
             ELSE IF root.tag = "feedback" /\ HasElem(root, "original_message") THEN "ruf"
             ELSE "unclassified"

\* _classify_xml
_classify_xml(xml_path, data) ==
    IF ~ParsesAsXml(data) THEN "unclassified"
    ELSE LET root == data.body.root
         IN  IF HasElem(root, "report_metadata") /\ HasElem(root, "record") THEN "rua"
             ELSE IF HasElem(root, "auth_failure") THEN "ruf"
             ELSE IF root.tag = "feedback" /\ HasElem(root, "policy_published")
                     /\ HasElem(root, "record") THEN "rua"
             ELSE IF root.tag = "feedback"
                     /\ (HasElem(root, "auth_failure") \/ HasElem(root, "original_message"))
                  THEN "ruf"
             ELSE "unclassified"

\* sum(1 for keyword in keywords if keyword in text_content)
KeywordMatches(keywords, text_content) ==
    Cardinality({i \in 1..Len(keywords) : Contains(text_content, keywords[i])})

\* the boost test with len(rows) >= 5
has_multiple_records_from_five(data) ==
    \E t \in 1..Len(find_all_tables(data)) : Len(find_all_tables(data)[t]) >= BoostRows

\* some table has more than 5 rows
has_multiple_records(data) ==
    \E t \in 1..Len(find_all_tables(data)) : Len(find_all_tables(data)[t]) > BoostRows

\* 'received:' in text and 'from:' in text and 'subject:' in text
has_mail_headers(text_content) ==
    /\ Contains(text_content, "received:")
    /\ Contains(text_content, "from:")
    /\ Contains(text_content, "subject:")

\* rua_score at the decision of _classify_html
rua_score(data) ==
    KeywordMatches(rua_keywords, lower(get_text(data)))
    + (IF has_multiple_records(data) THEN BoostScore ELSE 0)

\* ruf_score at the decision of _classify_html
ruf_score(data) ==
    KeywordMatches(ruf_keywords, lower(get_text(data)))
    + (IF has_mail_headers(lower(get_text(data))) THEN BoostScore ELSE 0)

\* the file name heuristics of _classify_html
FilenameVerdict(html_path) ==
    LET filename_lower == lower(PathName(html_path))
    IN  IF Contains(filename_lower, "aggregate") \/ Contains(filename_lower, "rua") THEN "rua"
        ELSE IF Contains(filename_lower, "forensic") \/ Contains(filename_lower, "ruf")
                \/ Contains(filename_lower, "failure") THEN "ruf"
        ELSE "unclassified"

\* _classify_html that lets the file name decide before the scores
_classify_html_name_first(html_path, data) ==
    IF ~ParsesAsHtml(data) THEN "unclassified"
    ELSE LET rua == rua_score(data)
             ruf == ruf_score(data)
         IN  IF FilenameVerdict(html_path) # "unclassified" THEN FilenameVerdict(html_path)
             ELSE IF rua > ruf /\ rua > 0 THEN "rua"
             ELSE IF ruf > rua /\ ruf > 0 THEN "ruf"
             ELSE "unclassified"

\* _classify_html that gives a nonzero tie to the aggregate side
_classify_html_tie_to_rua(html_path, data) ==
    IF ~ParsesAsHtml(data) THEN "unclassified"
    ELSE LET rua == rua_score(data)
             ruf == ruf_score(data)
         IN  IF rua >= ruf /\ rua > 0 THEN "rua"
             ELSE IF ruf > rua /\ ruf > 0 THEN "ruf"
             ELSE FilenameVerdict(html_path)

\* _classify_html
_classify_html(html_path, data) ==
    IF ~ParsesAsHtml(data) THEN "unclassified"
    ELSE LET rua == rua_score(data)
             ruf == ruf_score(data)
         IN  IF rua > ruf /\ rua > 0 THEN "rua"
             ELSE IF ruf > rua /\ ruf > 0 THEN "ruf"
             ELSE FilenameVerdict(html_path)

\* _move_file that leaves an unclassified file in place without recording it
_move_file_unrecorded(c, file_path, report_type, data) ==
    IF report_type = "rua"
    THEN LET name == UniqueName(c.rua_dir, file_path)
         IN  [c EXCEPT !.rua_dir = WriteFile(@, name, data),
                       !.rua_files = Append(@, Join(RuaDir, name))]
    ELSE IF report_type = "ruf"
    THEN LET name == UniqueName(c.ruf_dir, file_path)
         IN  [c EXCEPT !.ruf_dir = WriteFile(@, name, data),
                       !.ruf_files = Append(@, Join(RufDir, name))]
    ELSE c

\* _move_file: an unclassified file is recorded and left in place, a
\* classified one is copied under a free name into its directory
_move_file(c, file_path, report_type, data) ==
    IF report_type = "rua"
    THEN LET name == UniqueName(c.rua_dir, file_path)
         IN  [c EXCEPT !.rua_dir = WriteFile(@, name, data),
                       !.rua_files = Append(@, Join(RuaDir, name))]
    ELSE IF report_type = "ruf"
    THEN LET name == UniqueName(c.ruf_dir, file_path)
         IN  [c EXCEPT !.ruf_dir = WriteFile(@, name, data),
                       !.ruf_files = Append(@, Join(RufDir, name))]
    ELSE [c EXCEPT !.unclassified_files = Append(@, file_path)]

\* the report_type _classify_file computes
report_type_of(file_path, data) ==
    LET file_ext == lower(PathSuffix(file_path))
    IN  IF file_ext = ".xml" THEN _classify_xml(file_path, data)
        ELSE IF file_ext \in {".html", ".htm"} THEN _classify_html(file_path, data)
        ELSE "unclassified"

\* the files shutil.copy2 fails on
Uncopyable == {"extracted/locked.xml"}

\* shutil.copy2(file_path, dest_path) raises
CopyRaises(file_path) == file_path \in Uncopyable

\* _classify_file whose except branch records nothing
_classify_file_error_unrecorded(c, file_path, data) ==
    LET report_type == report_type_of(file_path, data)
    IN  IF report_type \in {"rua", "ruf"} /\ CopyRaises(file_path) THEN c
        ELSE _move_file(c, file_path, report_type, data)

\* _classify_file: an exception of the classification gives the type
\* unclassified (see _classify_xml, _classify_html); an exception of the copy
\* in _move_file is caught and the file recorded as unclassified
_classify_file(c, file_path, data) ==
    LET report_type == report_type_of(file_path, data)
    IN  IF report_type \in {"rua", "ruf"} /\ CopyRaises(file_path)
        THEN [c EXCEPT !.unclassified_files = Append(@, file_path)]
        ELSE _move_file(c, file_path, report_type, data)

RECURSIVE ClassifyAll(_, _, _)
\* for file_path in input_path.glob('*'): self._classify_file(file_path)
ClassifyAll(c, files, i) ==
    IF i > Len(files) THEN c
    ELSE ClassifyAll(_classify_file(c, files[i].path, files[i].data), files, i + 1)

\* {'rua': [], 'ruf': [], 'unclassified': []}
NoneClassified == [rua |-> <<>>, ruf |-> <<>>, unclassified |-> <<>>]

\* classify_all: the state it leaves and the dict it returns; exists tells
\* whether the input directory is there, files are its files in the order
\* of the glob
classify_all(c, exists, files) ==
    IF ~exists THEN [c |-> c, returns |-> NoneClassified]
    ELSE LET c2 == ClassifyAll(c, files, 1)
         IN  [c |-> c2,
              returns |-> [rua |-> c2.rua_files, ruf |-> c2.ruf_files,
                           unclassified |-> c2.unclassified_files]]

(***************************************************************************)
(* Python's re.search for the patterns of the analyzers.                   *)
(*                                                                         *)
(* A pattern is a sequence of items:                                       *)
(*   lit    a literal string                                               *)
(*   rep    a character class repeated min..max times, greedy              *)
(*   alt    an alternation of patterns, tried left to right                *)
(*   open / close   the bounds of capture group g                          *)
(* The match is the one the backtracking of the re module finds: at the    *)
(* leftmost start, every repetition as long as the rest of the pattern     *)
(* allows, and the first alternative that lets the rest match.             *)
(***************************************************************************)
Class(chars) == [neg |-> FALSE, chars |-> chars]

NotClass(chars) == [neg |-> TRUE, chars |-> chars]

\* \s
Space == " \t\n\r\f"

\* \d
Digits == "0123456789"

\* {min,max}
Rep(cls, min, max) == <<[k |-> "rep", cls |-> cls, min |-> min, max |-> max, limited |-> TRUE]>>

\* {min,}
AtLeast(cls, min) == <<[k |-> "rep", cls |-> cls, min |-> min, max |-> min, limited |-> FALSE]>>

Star(cls) == AtLeast(cls, 0)

Plus(cls) == AtLeast(cls, 1)

Opt(cls) == Rep(cls, 0, 1)

\* a literal string
Lit(str) == <<[k |-> "lit", str |-> str]>>

Alt(alts) == <<[k |-> "alt", alts |-> alts]>>

\* ( ... ) as capture group g
Cap(g, items) == <<[k |-> "open", g |-> g]>> \o items \o <<[k |-> "close", g |-> g]>>

UpperMap ==
    [c \in {CharAt(LowerChars, i) : i \in 1..Len(LowerChars)} |->
        CharAt(UpperChars, CHOOSE j \in 1..Len(LowerChars) : CharAt(LowerChars, j) = c)]

UpperChar(c) == IF c \in DOMAIN UpperMap THEN UpperMap[c] ELSE c

\* the character matches the class; with re.IGNORECASE in either case
ClassHas(cls, c, icase) ==
    LET hit == \/ Contains(cls.chars, c)
               \/ icase /\ (Contains(cls.chars, LowerChar(c)) \/ Contains(cls.chars, UpperChar(c)))
    IN  hit # cls.neg

\* the literal stands at pos; with re.IGNORECASE in either case
LitAt(str, text, pos, icase) ==
    /\ pos + Len(str) - 1 <= Len(text)
    /\ IF icase
       THEN /\ LowerChar(CharAt(text, pos)) = LowerChar(CharAt(str, 1))
            /\ lower(SubSeq(text, pos, pos + Len(str) - 1)) = lower(str)
       ELSE SubSeq(text, pos, pos + Len(str) - 1) = str

NoMatch == [ok |-> FALSE, end |-> 0, caps |-> <<>>]

NoGroups == <<[s |-> 0, e |-> 0], [s |-> 0, e |-> 0]>>

\* how many characters from pos on are in the class, up to the item's max
RunLength(it, text, pos, icase) ==
    LET last == IF it.limited /\ it.max < Len(text) - pos + 1 THEN pos + it.max - 1 ELSE Len(text)
        out == {j \in pos..last : ~ClassHas(it.cls, CharAt(text, j), icase)}
    IN  IF out = {} THEN last - pos + 1
        ELSE (CHOOSE j \in out : \A k \in out : j <= k) - pos

RECURSIVE MatchFrom(_, _, _, _, _)
RECURSIVE TryRep(_, _, _, _, _, _, _)
RECURSIVE TryAlt(_, _, _, _, _, _, _)

\* the repetition taking high characters, then high - 1, ... down to low:
\* the upper half of the lengths before the lower half
TryRep(rest, text, pos, caps, icase, low, high) ==
    IF low > high THEN NoMatch
    ELSE IF low = high THEN MatchFrom(rest, text, pos + high, caps, icase)
    ELSE LET mid == (low + high + 1) \div 2
             r == TryRep(rest, text, pos, caps, icase, mid, high)
         IN  IF r.ok THEN r ELSE TryRep(rest, text, pos, caps, icase, low, mid - 1)

\* the alternatives j, j + 1, ... each followed by the rest of the pattern
TryAlt(items, rest, text, pos, caps, icase, j) ==
    IF j > Len(items[1].alts) THEN NoMatch
    ELSE LET r == MatchFrom(items[1].alts[j] \o rest, text, pos, caps, icase)
         IN  IF r.ok THEN r ELSE TryAlt(items, rest, text, pos, caps, icase, j + 1)

\* the match of the pattern anchored at pos
MatchFrom(items, text, pos, caps, icase) ==
    IF Len(items) = 0 THEN [ok |-> TRUE, end |-> pos, caps |-> caps]
    ELSE LET it == items[1]
             rest == SubSeq(items, 2, Len(items))
         IN  CASE it.k = "lit" ->
                    IF LitAt(it.str, text, pos, icase)
                    THEN MatchFrom(rest, text, pos + Len(it.str), caps, icase)
                    ELSE NoMatch
               [] it.k = "rep" ->
                    TryRep(rest, text, pos, caps, icase, it.min, RunLength(it, text, pos, icase))
               [] it.k = "alt" -> TryAlt(items, rest, text, pos, caps, icase, 1)
               [] it.k = "open" ->
                    MatchFrom(rest, text, pos, [caps EXCEPT ![it.g].s = pos], icase)
               [] it.k = "close" ->
                    MatchFrom(rest, text, pos, [caps EXCEPT ![it.g].e = pos], icase)

RECURSIVE SearchFrom(_, _, _, _, _)
\* the match at the first of the starts first, first + 1, ... last that has
\* one: the lower half of the starts before the upper half
SearchFrom(items, text, icase, first, last) ==
    IF first > last THEN NoMatch
    ELSE IF first = last THEN MatchFrom(items, text, first, NoGroups, icase)
    ELSE LET mid == (first + last) \div 2
             m == SearchFrom(items, text, icase, first, mid)
         IN  IF m.ok THEN m ELSE SearchFrom(items, text, icase, mid + 1, last)

\* re.search(pattern, text): the match at the leftmost start, or no match
re_search(items, text, icase) == SearchFrom(items, text, icase, 1, Len(text) + 1)

\* match.group(g)
group(m, text, g) == SubSeq(text, m.caps[g].s, m.caps[g].e - 1)

IsSpace(c) == Contains(Space, c)

RECURSIVE lstrip(_)
lstrip(s) == IF Len(s) > 0 /\ IsSpace(CharAt(s, 1)) THEN lstrip(SubSeq(s, 2, Len(s))) ELSE s

RECURSIVE rstrip(_)
rstrip(s) == IF Len(s) > 0 /\ IsSpace(CharAt(s, Len(s))) THEN rstrip(SubSeq(s, 1, Len(s) - 1)) ELSE s

\* str.strip()
strip(s) == rstrip(lstrip(s))

(***************************************************************************)
(* The patterns of RUAAnalyzer.                                            *)
(***************************************************************************)
\* [^\s\n<]
Token == NotClass(Space \o "<")

\* [^\n<]
LineNoTag == NotClass("\n<")

\* [:\s]
ColonSpace == Class(":" \o Space)

\* [_\s]
UnderSpace == Class("_" \o Space)

\* r'report[_\s]*id[:\s]*([^\s\n<]+)'
ReportIdPattern == Lit("report") \o Star(UnderSpace) \o Lit("id") \o Star(ColonSpace) \o Cap(1, Plus(Token))

\* r'organization[:\s]*([^\n<]+)'
OrganizationPattern == Lit("organization") \o Star(ColonSpace) \o Cap(1, Plus(LineNoTag))

\* r'email[:\s]*([^\s\n<]+@[^\s\n<]+)'
EmailPattern == Lit("email") \o Star(ColonSpace) \o Cap(1, Plus(Token) \o Lit("@") \o Plus(Token))

\* \d{4}-\d{2}-\d{2}
IsoDate == Rep(Class(Digits), 4, 4) \o Lit("-") \o Rep(Class(Digits), 2, 2) \o Lit("-") \o Rep(Class(Digits), 2, 2)

\* r'(\d{4}-\d{2}-\d{2})[^\d]+(\d{4}-\d{2}-\d{2})'
DateRangePattern == Cap(1, IsoDate) \o Plus(NotClass(Digits)) \o Cap(2, IsoDate)

\* r'domain[:\s]*([^\s\n<]+\.[^\s\n<]+)'
DomainPattern == Lit("domain") \o Star(ColonSpace) \o Cap(1, Plus(Token) \o Lit(".") \o Plus(Token))

\* (none|quarantine|reject)
PolicyToken == Cap(1, Alt(<<Lit("none"), Lit("quarantine"), Lit("reject")>>))

\* r'policy[:\s]*(none|quarantine|reject)'
PolicyPattern == Lit("policy") \o Star(ColonSpace) \o PolicyToken

(***************************************************************************)
(* Python's int(str) and the date formatting of _format_timestamp.         *)
(***************************************************************************)
IsDigit(c) == Contains(Digits, c)

\* the literal without surrounding whitespace and sign
Unsigned(s) ==
    LET t == strip(s)
    IN  IF Len(t) > 0 /\ CharAt(t, 1) \in {"+", "-"} THEN SubSeq(t, 2, Len(t)) ELSE t

\* int(s) does not raise ValueError: optional whitespace and sign, then
\* digits, single underscores allowed between digits
IsIntLiteral(s) ==
    LET u == Unsigned(s)
    IN  /\ Len(u) > 0
        /\ \A i \in 1..Len(u) :
              \/ IsDigit(CharAt(u, i))
              \/ /\ CharAt(u, i) = "_"
                 /\ 1 < i /\ i < Len(u)
                 /\ IsDigit(CharAt(u, i - 1)) /\ IsDigit(CharAt(u, i + 1))

DigitValue(c) == CHOOSE d \in 0..9 : CharAt(Digits, d + 1) = c

RECURSIVE DigitsValue(_, _)
\* the value of the digits of u[1..n], underscores skipped
DigitsValue(u, n) ==
    IF n = 0 THEN 0
    ELSE IF CharAt(u, n) = "_" THEN DigitsValue(u, n - 1)
    ELSE 10 * DigitsValue(u, n - 1) + DigitValue(CharAt(u, n))

\* int(s) for a literal int accepts
int(s) ==
    LET t == strip(s)
        v == DigitsValue(Unsigned(s), Len(Unsigned(s)))
    IN  IF CharAt(t, 1) = "-" THEN 0 - v ELSE v

\* '%02d'
Pad2(n) == IF n < 10 THEN "0" \o ToString(n) ELSE ToString(n)

\* the civil date of a day number counted from 1970-01-01
CivilFromDays(days) ==
    LET z   == days + 719468
        era == z \div 146097
        doe == z - era * 146097
        yoe == (doe - doe \div 1460 + doe \div 36524 - doe \div 146096) \div 365
        doy == doe - (365 * yoe + yoe \div 4 - yoe \div 100)
        mp  == (5 * doy + 2) \div 153
        d   == doy - (153 * mp + 2) \div 5 + 1
        m   == IF mp < 10 THEN mp + 3 ELSE mp - 9
        y   == yoe + era * 400 + (IF m <= 2 THEN 1 ELSE 0)
    IN  [y |-> y, m |-> m, d |-> d]

\* datetime.fromtimestamp(t).strftime('%Y-%m-%d %H:%M:%S'), the local time
\* zone taken to be UTC.  The integers here are below 2^31, a range in which
\* fromtimestamp raises nothing.
strftime(t) ==
    LET days == t \div 86400
        secs == t % 86400
        c    == CivilFromDays(days)
    IN  ToString(c.y) \o "-" \o Pad2(c.m) \o "-" \o Pad2(c.d) \o " "
        \o Pad2(secs \div 3600) \o ":" \o Pad2((secs % 3600) \div 60) \o ":" \o Pad2(secs % 60)

(***************************************************************************)
(* RUAAnalyzer (src/analyzers/rua_analyzer.py).                            *)
(*                                                                         *)
(* The analyzer's state a:                                                 *)
(*   reports_data    list of records (dicts of 16 keys)                    *)
(*   failed_records  list of the records tracked as failed                 *)
(*   sources         history: for every record of reports_data, the XML    *)
(*                   record element or HTML row it was made from           *)
(* A method that can raise returns [ok, ...]; ok FALSE is the exception.   *)
(***************************************************************************)
\* dict.get(key, default)
Get(dict, key, default) == IF key \in DOMAIN dict THEN dict[key] ELSE default

\* {}
EmptyDict == [k \in {} |-> ""]

\* element.find(path) for the three path forms the analyzers use
Find(element, path) ==
    IF Len(path) > 3 /\ SubSeq(path, 1, 3) = ".//"
    THEN find_desc(element, SubSeq(path, 4, Len(path)))
    ELSE IF rfind(path, "/") > 0
    THEN find_path(element, SubSeq(path, 1, rfind(path, "/") - 1),
                   SubSeq(path, rfind(path, "/") + 1, Len(path)))
    ELSE find_child(element, path)

\* _safe_find_xml
_safe_find_xml(element, path, default) ==
    IF IsNone(element) THEN default
    ELSE LET found == Find(element, path)
         IN  IF ~IsNone(found) /\ found.text # "" THEN found.text ELSE default

\* _extract_metadata_xml
_extract_metadata_xml(root) ==
    LET metadata == find_desc(root, "report_metadata")
    IN  IF IsNone(metadata) THEN EmptyDict
        ELSE [org_name |-> _safe_find_xml(metadata, "org_name", ""),
              email |-> _safe_find_xml(metadata, "email", ""),
              report_id |-> _safe_find_xml(metadata, "report_id", ""),
              date_begin |-> _safe_find_xml(metadata, "date_range/begin", ""),
              date_end |-> _safe_find_xml(metadata, "date_range/end", "")]

\* _extract_policy_xml
_extract_policy_xml(root) ==
    LET policy == find_desc(root, "policy_published")
    IN  IF IsNone(policy) THEN EmptyDict
        ELSE [domain |-> _safe_find_xml(policy, "domain", ""),
              adkim |-> _safe_find_xml(policy, "adkim", "r"),
              aspf |-> _safe_find_xml(policy, "aspf", "r"),
              p |-> _safe_find_xml(policy, "p", "none"),
              sp |-> _safe_find_xml(policy, "sp", "none"),
              pct |-> _safe_find_xml(policy, "pct", "100")]

\* _check_dkim_xml: some dkim element below auth_results has result 'pass'
_check_dkim_xml(auth_results) ==
    IF IsNone(auth_results) THEN FALSE
    ELSE LET found == findall_desc(auth_results, "dkim")
         IN  \E i \in 1..Len(found) : _safe_find_xml(found[i], "result", "") = "pass"

\* _check_spf_xml that scans every spf element, as _check_dkim_xml does
_check_spf_xml_any_match(auth_results) ==
    IF IsNone(auth_results) THEN FALSE
    ELSE \E i \in 1..Len(findall_desc(auth_results, "spf")) :
            _safe_find_xml(findall_desc(auth_results, "spf")[i], "result", "") = "pass"

\* _check_spf_xml: the first spf element below auth_results has result 'pass'
_check_spf_xml(auth_results) ==
    IF IsNone(auth_results) THEN FALSE
    ELSE LET spf == find_desc(auth_results, "spf")
         IN  IF ~IsNone(spf) THEN _safe_find_xml(spf, "result", "") = "pass" ELSE FALSE

\* _format_timestamp
_format_timestamp(timestamp) ==
    IF timestamp = "" THEN "Unknown"
    ELSE IF IsIntLiteral(timestamp) THEN strftime(int(timestamp))
    ELSE timestamp

Raised == [ok |-> FALSE, rec |-> EmptyDict]

\* _process_record_xml: raises ValueError on a count int() rejects and
\* AttributeError (row.find) on a record without row
_process_record_xml(record, metadata, policy) ==
    LET row == find_desc(record, "row")
        identifiers == find_desc(record, "identifiers")
        auth_results == find_desc(record, "auth_results")
        count_text == _safe_find_xml(row, "count", "0")
        policy_evaluated == find_desc(row, "policy_evaluated")
    IN  IF ~IsIntLiteral(count_text) \/ IsNone(row) THEN Raised
        ELSE [ok |-> TRUE,
              rec |-> [Report_ID |-> Get(metadata, "report_id", "Unknown"),
                       Provider |-> Get(metadata, "org_name", "Unknown"),
                       Date_Begin |-> _format_timestamp(Get(metadata, "date_begin", "")),
                       Date_End |-> _format_timestamp(Get(metadata, "date_end", "")),
                       Domain |-> Get(policy, "domain", "Unknown"),
                       Source_IP |-> _safe_find_xml(row, "source_ip", ""),
                       Count |-> int(count_text),
                       Disposition |-> _safe_find_xml(policy_evaluated, "disposition", "none"),
                       DKIM_Result |-> _safe_find_xml(policy_evaluated, "dkim", "fail"),
                       SPF_Result |-> _safe_find_xml(policy_evaluated, "spf", "fail"),
                       DKIM_Pass |-> _check_dkim_xml(auth_results),
                       SPF_Pass |-> _check_spf_xml(auth_results),
                       Header_From |-> _safe_find_xml(identifiers, "header_from", ""),
                       Envelope_From |-> _safe_find_xml(identifiers, "envelope_from", ""),
                       Policy_P |-> Get(policy, "p", "none"),
                       Policy_SP |-> Get(policy, "sp", "none")]]

\* the tracking that counts a record as failed only when both flags are false
Track_both_failed(a, record_data, source) ==
    [a EXCEPT !.reports_data = Append(@, record_data),
              !.sources = Append(@, source),
              !.failed_records = IF ~record_data.SPF_Pass /\ ~record_data.DKIM_Pass
                                 THEN Append(@, record_data) ELSE @]

\* self.reports_data.append(record_data) and the tracking of failures
Track(a, record_data, source) ==
    [a EXCEPT !.reports_data = Append(@, record_data),
              !.sources = Append(@, source),
              !.failed_records = IF ~record_data.SPF_Pass \/ ~record_data.DKIM_Pass
                                 THEN Append(@, record_data) ELSE @]

RECURSIVE ProcessRecords(_, _, _, _, _)
\* for record in root.findall('.//record'): an exception ends the loop, the
\* records appended before it stay
ProcessRecords(a, records, i, metadata, policy) ==
    IF i > Len(records) THEN [ok |-> TRUE, a |-> a]
    ELSE LET r == _process_record_xml(records[i], metadata, policy)
         IN  IF ~r.ok THEN [ok |-> FALSE, a |-> a]
             ELSE ProcessRecords(Track(a, r.rec, [xml |-> TRUE, record |-> records[i]]),
                                 records, i + 1, metadata, policy)

\* _process_xml_report
_process_xml_report(a, xml_path, data) ==
    IF ~ParsesAsXml(data) THEN [ok |-> FALSE, a |-> a]
    ELSE LET root == data.body.root
         IN  ProcessRecords(a, findall_desc(root, "record"), 1,
                            _extract_metadata_xml(root), _extract_policy_xml(root))

\* _extract_metadata_html
_extract_metadata_html(text) ==
    LET report_id_match == re_search(ReportIdPattern, text, TRUE)
        org_match == re_search(OrganizationPattern, text, TRUE)
        email_match == re_search(EmailPattern, text, TRUE)
        date_match == re_search(DateRangePattern, text, FALSE)
    IN  [org_name |-> IF org_match.ok THEN strip(group(org_match, text, 1)) ELSE "Unknown",
         email |-> IF email_match.ok THEN group(email_match, text, 1) ELSE "Unknown",
         report_id |-> IF report_id_match.ok THEN group(report_id_match, text, 1) ELSE "Unknown",
         date_begin |-> IF date_match.ok THEN group(date_match, text, 1) ELSE "",
         date_end |-> IF date_match.ok THEN group(date_match, text, 2) ELSE ""]

\* _extract_policy_html
_extract_policy_html(text) ==
    LET domain_match == re_search(DomainPattern, text, TRUE)
        policy_match == re_search(PolicyPattern, text, TRUE)
    IN  [domain |-> IF domain_match.ok THEN strip(group(domain_match, text, 1)) ELSE "Unknown",
         adkim |-> "r",
         aspf |-> "r",
         p |-> IF policy_match.ok THEN lower(group(policy_match, text, 1)) ELSE "none",
         sp |-> "none",
         pct |-> "100"]

\* value.replace(',', '')
RECURSIVE RemoveCommas(_)
RemoveCommas(s) ==
    IF Len(s) = 0 THEN ""
    ELSE (IF CharAt(s, 1) = "," THEN "" ELSE CharAt(s, 1)) \o RemoveCommas(SubSeq(s, 2, Len(s)))

\* one turn of the header loop of _parse_html_row
MapHeader(record, header_lower, value) ==
    IF Contains(header_lower, "ip") \/ Contains(header_lower, "source")
    THEN [record EXCEPT !.Source_IP = value]
    ELSE IF Contains(header_lower, "count") \/ Contains(header_lower, "messages")
    THEN [record EXCEPT !.Count = IF IsIntLiteral(RemoveCommas(value))
                                  THEN int(RemoveCommas(value)) ELSE 0]
    ELSE IF Contains(header_lower, "dkim")
    THEN [record EXCEPT !.DKIM_Result = lower(value), !.DKIM_Pass = Contains(lower(value), "pass")]
    ELSE IF Contains(header_lower, "spf")
    THEN [record EXCEPT !.SPF_Result = lower(value), !.SPF_Pass = Contains(lower(value), "pass")]
    ELSE IF Contains(header_lower, "disposition") \/ Contains(header_lower, "action")
    THEN [record EXCEPT !.Disposition = lower(value)]
    ELSE IF Contains(header_lower, "from")
    THEN (IF Contains(header_lower, "header") THEN [record EXCEPT !.Header_From = value]
          ELSE IF Contains(header_lower, "envelope") THEN [record EXCEPT !.Envelope_From = value]
          ELSE [record EXCEPT !.Header_From = value])
    ELSE record

RECURSIVE MapHeaders(_, _, _, _)
\* for i, header in enumerate(headers): if i >= len(values): break
MapHeaders(record, headers, values, i) ==
    IF i > Len(headers) \/ i > Len(values) THEN record
    ELSE MapHeaders(MapHeader(record, lower(headers[i]), values[i]), headers, values, i + 1)

\* _parse_html_row
_parse_html_row(headers, values, metadata, policy) ==
    MapHeaders([Report_ID |-> Get(metadata, "report_id", "Unknown"),
                Provider |-> Get(metadata, "org_name", "Unknown"),
                Date_Begin |-> Get(metadata, "date_begin", "Unknown"),
                Date_End |-> Get(metadata, "date_end", "Unknown"),
                Domain |-> Get(policy, "domain", "Unknown"),
                Source_IP |-> "Unknown",
                Count |-> 0,
                Disposition |-> "none",
                DKIM_Result |-> "unknown",
                SPF_Result |-> "unknown",
                DKIM_Pass |-> FALSE,
                SPF_Pass |-> FALSE,
                Header_From |-> "Unknown",
                Envelope_From |-> "Unknown",
                Policy_P |-> Get(policy, "p", "none"),
                Policy_SP |-> Get(policy, "sp", "none")],
               headers, values, 1)

\* [cell.get_text(strip=True) for cell in cells]
CellValues(row) == [i \in 1..Len(row) |-> strip(row[i].text)]

\* cells a row needs to be read as a record
MinCells == 3

\* no row is skipped
TooShort_never(cells) == FALSE

\* if len(cells) < 3: continue
TooShort(cells) == Len(cells) < MinCells

RECURSIVE ProcessRows(_, _, _, _, _, _)
\* the row loop of _process_html_table over rows[i..]
ProcessRows(a, rows, i, headers, metadata, policy) ==
    IF i > Len(rows) THEN a
    ELSE IF TooShort(rows[i]) THEN ProcessRows(a, rows, i + 1, headers, metadata, policy)
    ELSE ProcessRows(Track(a, _parse_html_row(headers, CellValues(rows[i]), metadata, policy),
                           [xml |-> FALSE, headers |-> headers, row |-> rows[i]]),
                     rows, i + 1, headers, metadata, policy)

\* _process_html_table: every tr after the first one
_process_html_table(a, table, headers, metadata, policy) ==
    ProcessRows(a, SubSeq(table, 2, Len(table)), 1, headers, metadata, policy)

RECURSIVE ThTexts(_, _)
\* [th.get_text(strip=True).lower() for th in table.find_all('th')]
ThTexts(cells, i) ==
    IF i > Len(cells) THEN <<>>
    ELSE (IF cells[i].th THEN <<lower(strip(cells[i].text))>> ELSE <<>>) \o ThTexts(cells, i + 1)

RECURSIVE TableHeaders(_, _)
TableHeaders(table, r) ==
    IF r > Len(table) THEN <<>> ELSE ThTexts(table[r], 1) \o TableHeaders(table, r + 1)

RECURSIVE JoinWith(_, _, _)
\* sep.join(strs)
JoinWith(strs, sep, i) ==
    IF i > Len(strs) THEN ""
    ELSE IF i = Len(strs) THEN strs[i]
    ELSE strs[i] \o sep \o JoinWith(strs, sep, i + 1)

\* the test for a records table
LooksLikeRecords(headers) ==
    \E keyword \in {"ip", "source", "count", "dkim", "spf"} :
        Contains(JoinWith(headers, " ", 1), keyword)

RECURSIVE ProcessTables(_, _, _, _, _)
\* for table in tables
ProcessTables(a, tables, t, metadata, policy) ==
    IF t > Len(tables) THEN a
    ELSE LET headers == TableHeaders(tables[t], 1)
         IN  ProcessTables(IF LooksLikeRecords(headers)
                           THEN _process_html_table(a, tables[t], headers, metadata, policy)
                           ELSE a,
                           tables, t + 1, metadata, policy)

\* _process_html_report
_process_html_report(a, html_path, data) ==
    IF ~ParsesAsHtml(data) THEN [ok |-> FALSE, a |-> a]
    ELSE [ok |-> TRUE,
          a |-> ProcessTables(a, find_all_tables(data), 1,
                              _extract_metadata_html(get_text(data)),
                              _extract_policy_html(get_text(data)))]

\* add_report: a missing file and an unsupported extension return at once;
\* an exception of the processing is caught, what was appended stays
add_report(a, file_path, exists, data) ==
    LET file_ext == lower(PathSuffix(file_path))
    IN  IF ~exists THEN a
        ELSE IF file_ext = ".xml" THEN _process_xml_report(a, file_path, data).a
        ELSE IF file_ext \in {".html", ".htm"} THEN _process_html_report(a, file_path, data).a
        ELSE a

(***************************************************************************)
(* DMARCAnalyzer (src/dmarc_analyzer.py), the XML-only predecessor of      *)
(* RUAAnalyzer.  Its state has reports_data and failed_records.           *)
(***************************************************************************)
\* DMARCAnalyzer._safe_find
dmarc_safe_find(element, path, default) ==
    IF IsNone(element) THEN default
    ELSE LET found == Find(element, path)
         IN  IF ~IsNone(found) /\ found.text # "" THEN found.text ELSE default

\* _extract_metadata
_extract_metadata(root) ==
    LET metadata == find_desc(root, "report_metadata")
    IN  IF IsNone(metadata) THEN EmptyDict
        ELSE [org_name |-> dmarc_safe_find(metadata, "org_name", ""),
              email |-> dmarc_safe_find(metadata, "email", ""),
              report_id |-> dmarc_safe_find(metadata, "report_id", ""),
              date_begin |-> dmarc_safe_find(metadata, "date_range/begin", ""),
              date_end |-> dmarc_safe_find(metadata, "date_range/end", "")]

\* _extract_policy
_extract_policy(root) ==
    LET policy == find_desc(root, "policy_published")
    IN  IF IsNone(policy) THEN EmptyDict
        ELSE [domain |-> dmarc_safe_find(policy, "domain", ""),
              adkim |-> dmarc_safe_find(policy, "adkim", "r"),
              aspf |-> dmarc_safe_find(policy, "aspf", "r"),
              p |-> dmarc_safe_find(policy, "p", "none"),
              sp |-> dmarc_safe_find(policy, "sp", "none"),
              pct |-> dmarc_safe_find(policy, "pct", "100")]

\* _check_dkim
_check_dkim(auth_results) ==
    IF IsNone(auth_results) THEN FALSE
    ELSE LET found == findall_desc(auth_results, "dkim")
         IN  \E i \in 1..Len(found) : dmarc_safe_find(found[i], "result", "") = "pass"

\* _check_spf
_check_spf(auth_results) ==
    IF IsNone(auth_results) THEN FALSE
    ELSE LET spf == find_desc(auth_results, "spf")
         IN  IF ~IsNone(spf) THEN dmarc_safe_find(spf, "result", "") = "pass" ELSE FALSE

\* DMARCAnalyzer._format_timestamp
dmarc_format_timestamp(timestamp) ==
    IF timestamp = "" THEN "Unknown"
    ELSE IF IsIntLiteral(timestamp) THEN strftime(int(timestamp))
    ELSE timestamp

\* _process_record
_process_record(record, metadata, policy) ==
    LET row == find_desc(record, "row")
        identifiers == find_desc(record, "identifiers")
        auth_results == find_desc(record, "auth_results")
        count_text == dmarc_safe_find(row, "count", "0")
        policy_evaluated == find_desc(row, "policy_evaluated")
    IN  IF ~IsIntLiteral(count_text) \/ IsNone(row) THEN Raised
        ELSE [ok |-> TRUE,
              rec |-> [Report_ID |-> Get(metadata, "report_id", "Unknown"),
                       Provider |-> Get(metadata, "org_name", "Unknown"),
                       Date_Begin |-> dmarc_format_timestamp(Get(metadata, "date_begin", "")),
                       Date_End |-> dmarc_format_timestamp(Get(metadata, "date_end", "")),
                       Domain |-> Get(policy, "domain", "Unknown"),
                       Source_IP |-> dmarc_safe_find(row, "source_ip", ""),
                       Count |-> int(count_text),
                       Disposition |-> dmarc_safe_find(policy_evaluated, "disposition", "none"),
                       DKIM_Result |-> dmarc_safe_find(policy_evaluated, "dkim", "fail"),
                       SPF_Result |-> dmarc_safe_find(policy_evaluated, "spf", "fail"),
                       DKIM_Pass |-> _check_dkim(auth_results),
                       SPF_Pass |-> _check_spf(auth_results),
                       Header_From |-> dmarc_safe_find(identifiers, "header_from", ""),
                       Envelope_From |-> dmarc_safe_find(identifiers, "envelope_from", ""),
                       Policy_P |-> Get(policy, "p", "none"),
                       Policy_SP |-> Get(policy, "sp", "none")]]

\* the two appends of the record loop of DMARCAnalyzer.add_report
DmarcTrack(a, record_data, source) ==
    [a EXCEPT !.reports_data = Append(@, record_data),
              !.sources = Append(@, source),
              !.failed_records = IF ~record_data.SPF_Pass \/ ~record_data.DKIM_Pass
                                 THEN Append(@, record_data) ELSE @]

RECURSIVE DmarcRecords(_, _, _, _, _)
\* the record loop of DMARCAnalyzer.add_report
DmarcRecords(a, records, i, metadata, policy) ==
    IF i > Len(records) THEN a
    ELSE LET r == _process_record(records[i], metadata, policy)
         IN  IF ~r.ok THEN a
             ELSE DmarcRecords(DmarcTrack(a, r.rec, [xml |-> TRUE, record |-> records[i]]),
                               records, i + 1, metadata, policy)

\* DMARCAnalyzer.add_report: every existing file is given to ET.parse
dmarc_add_report(a, xml_file, exists, data) ==
    IF ~exists \/ ~ParsesAsXml(data) THEN a
    ELSE LET root == data.body.root
         IN  DmarcRecords(a, findall_desc(root, "record"), 1,
                          _extract_metadata(root), _extract_policy(root))

(***************************************************************************)
(* RUFAnalyzer (src/analyzers/ruf_analyzer.py).  Its state is the list     *)
(* reports_data of records (dicts of 19 keys).                             *)
(***************************************************************************)
\* [_\s-]
UnderSpaceDash == Class("_-" \o Space)

\* [^\n]
Line == NotClass("\n")

Letters == LowerChars \o UpperChars

\* \d{1,3}
Octet == Rep(Class(Digits), 1, 3)

\* r'(?:source[_\s]*ip|from[_\s]*ip)[:\s]*(\d{1,3}\.\d{1,3}\.\d{1,3}\.\d{1,3})'
SourceIpPattern ==
    Alt(<<Lit("source") \o Star(UnderSpace) \o Lit("ip"),
          Lit("from") \o Star(UnderSpace) \o Lit("ip")>>)
    \o Star(ColonSpace)
    \o Cap(1, Octet \o Lit(".") \o Octet \o Lit(".") \o Octet \o Lit(".") \o Octet)

\* r'authentication[_\s-]*results?[:\s]*([^\n]+)'
AuthResultsPattern ==
    Lit("authentication") \o Star(UnderSpaceDash) \o Lit("result") \o Opt(Class("s"))
    \o Star(ColonSpace) \o Cap(1, Plus(Line))

\* r'(?:reported[_\s]*domain|header[_\s]*from)[:\s]*(?:@)?([a-zA-Z0-9.-]+\.[a-zA-Z]{2,})'
ReportedDomainPattern ==
    Alt(<<Lit("reported") \o Star(UnderSpace) \o Lit("domain"),
          Lit("header") \o Star(UnderSpace) \o Lit("from")>>)
    \o Star(ColonSpace) \o Opt(Class("@"))
    \o Cap(1, Plus(Class(Letters \o Digits \o ".-")) \o Lit(".") \o AtLeast(Class(Letters), 2))

\* r'(?:arrival|date|received)[:\s]*([^\n]+(?:\d{4}|[A-Z]{3}\s+\d{4}))'
ArrivalDatePattern ==
    Alt(<<Lit("arrival"), Lit("date"), Lit("received")>>)
    \o Star(ColonSpace)
    \o Cap(1, Plus(Line)
              \o Alt(<<Rep(Class(Digits), 4, 4),
                       Rep(Class(UpperChars), 3, 3) \o Plus(Class(Space)) \o Rep(Class(Digits), 4, 4)>>))

\* r'delivery[_\s-]*result[:\s]*([^\n]+)'
DeliveryResultPattern ==
    Lit("delivery") \o Star(UnderSpaceDash) \o Lit("result") \o Star(ColonSpace) \o Cap(1, Plus(Line))

\* r'dmarc[_\s-]*policy[:\s]*(none|quarantine|reject)'
DmarcPolicyPattern ==
    Lit("dmarc") \o Star(UnderSpaceDash) \o Lit("policy") \o Star(ColonSpace) \o PolicyToken

\* r'<name>:\s*([^\n<]+)' of _extract_headers_html
HtmlHeaderPattern(name) == Lit(name \o ":") \o Star(Class(Space)) \o Cap(1, Plus(LineNoTag))

\* r'<name>:\s*([^\n]+)' of _extract_headers_xml
XmlHeaderPattern(name) == Lit(name \o ":") \o Star(Class(Space)) \o Cap(1, Plus(Line))

\* the stripped group 1 of the first match, or the value held before
Matched(pattern, text, before) ==
    LET m == re_search(pattern, text, TRUE)
    IN  IF m.ok THEN strip(group(m, text, 1)) ELSE before

\* dict.update(other)
Update(dict, other) ==
    [k \in DOMAIN dict \cup DOMAIN other |-> IF k \in DOMAIN other THEN other[k] ELSE dict[k]]

\* RUFAnalyzer._safe_find
_safe_find(element, path, default) ==
    IF IsNone(element) THEN default
    ELSE LET found == Find(element, path)
         IN  IF ~IsNone(found) THEN (IF found.text # "" THEN found.text ELSE default)
             ELSE default

\* _extract_headers_xml
_extract_headers_xml(root) ==
    LET original_msg == find_desc(root, "original_message")
        headers_text == IF IsNone(original_msg) THEN "" ELSE original_msg.text
    IN  [From |-> Matched(XmlHeaderPattern("From"), headers_text,
                          _safe_find(root, ".//from", "Unknown")),
         To |-> Matched(XmlHeaderPattern("To"), headers_text,
                        _safe_find(root, ".//to", "Unknown")),
         Subject |-> Matched(XmlHeaderPattern("Subject"), headers_text,
                             _safe_find(root, ".//subject", "Unknown")),
         Date |-> _safe_find(root, ".//date", "Unknown"),
         Message_ID |-> _safe_find(root, ".//message_id", "Unknown")]

\* _extract_headers_html that starts from an empty dict and holds the
\* headers found only
_extract_headers_html_found_only(text) ==
    LET Found(name) == re_search(HtmlHeaderPattern(name), text, TRUE).ok
        names == {n \in {"From", "To", "Subject", "Date", "Message-ID"} : Found(n)}
        Key(name) == IF name = "Message-ID" THEN "Message_ID" ELSE name
    IN  [k \in {Key(n) : n \in names} |->
            Matched(HtmlHeaderPattern(IF k = "Message_ID" THEN "Message-ID" ELSE k), text, "Unknown")]

\* _extract_headers_html
_extract_headers_html(text) ==
    [From |-> Matched(HtmlHeaderPattern("From"), text, "Unknown"),
     To |-> Matched(HtmlHeaderPattern("To"), text, "Unknown"),
     Subject |-> Matched(HtmlHeaderPattern("Subject"), text, "Unknown"),
     Date |-> Matched(HtmlHeaderPattern("Date"), text, "Unknown"),
     Message_ID |-> Matched(HtmlHeaderPattern("Message-ID"), text, "Unknown")]

\* RUFAnalyzer._process_xml_report; now is datetime.now() formatted
ruf_process_xml_report(reports, xml_path, data, now) ==
    IF ~ParsesAsXml(data) THEN reports
    ELSE LET root == data.body.root
             headers == _extract_headers_xml(root)
             auth_failure == lower(_safe_find(root, ".//auth_failure", "Unknown"))
         IN  Append(reports,
                Update(
                [Report_ID |-> _safe_find(root, ".//report_id", "Unknown"),
                 Feedback_Type |-> _safe_find(root, ".//feedback_type", "auth-failure"),
                 User_Agent |-> _safe_find(root, ".//user_agent", "Unknown"),
                 Version |-> _safe_find(root, ".//version", "Unknown"),
                 Source_IP |-> _safe_find(root, ".//source_ip", "Unknown"),
                 Authentication_Results |-> _safe_find(root, ".//auth_results", ""),
                 Delivery_Result |-> _safe_find(root, ".//delivery_result", "Unknown"),
                 Auth_Failure |-> _safe_find(root, ".//auth_failure", "Unknown"),
                 Reported_Domain |-> _safe_find(root, ".//reported_domain", "Unknown"),
                 Arrival_Date |-> _safe_find(root, ".//arrival_date", "Unknown"),
                 DMARC_Policy |-> _safe_find(root, ".//policy_evaluated", "Unknown"),
                 SPF_Failed |-> Contains(auth_failure, "spf"),
                 DKIM_Failed |-> Contains(auth_failure, "dkim"),
                 Processed_Date |-> now],
                headers))

\* 'fail' in text.lower() or 'failed' in text.lower()
MentionsFailure(text) == Contains(lower(text), "fail") \/ Contains(lower(text), "failed")

\* the SPF step of the failure composition: the value Auth_Failure has after it
AfterSpf(text, auth_failure) ==
    IF Contains(lower(text), "spf") /\ MentionsFailure(text)
    THEN (IF auth_failure = "" THEN "SPF" ELSE auth_failure \o ", SPF")
    ELSE auth_failure

\* the DKIM step of the failure composition
AfterDkim(text, auth_failure) ==
    IF Contains(lower(text), "dkim") /\ MentionsFailure(text)
    THEN (IF auth_failure # "Unknown" THEN auth_failure \o ", DKIM" ELSE "DKIM")
    ELSE auth_failure

\* RUFAnalyzer._process_html_report
ruf_process_html_report(reports, html_path, data, now) ==
    IF ~ParsesAsHtml(data) THEN reports
    ELSE LET text == get_text(data)
             headers == _extract_headers_html(text)
             ip_match == re_search(SourceIpPattern, text, TRUE)
             domain_match == re_search(ReportedDomainPattern, text, TRUE)
             policy_match == re_search(DmarcPolicyPattern, text, TRUE)
         IN  Append(reports,
                Update(
                [Report_ID |-> PathStem(html_path),
                 Feedback_Type |-> "auth-failure",
                 User_Agent |-> "Unknown",
                 Version |-> "Unknown",
                 Source_IP |-> IF ip_match.ok THEN group(ip_match, text, 1) ELSE "Unknown",
                 Authentication_Results |-> Matched(AuthResultsPattern, text, ""),
                 Delivery_Result |-> Matched(DeliveryResultPattern, text, "Unknown"),
                 Auth_Failure |-> AfterDkim(text, AfterSpf(text, "Unknown")),
                 Reported_Domain |-> IF domain_match.ok THEN group(domain_match, text, 1) ELSE "Unknown",
                 Arrival_Date |-> Matched(ArrivalDatePattern, text, "Unknown"),
                 DMARC_Policy |-> IF policy_match.ok THEN lower(group(policy_match, text, 1)) ELSE "Unknown",
                 SPF_Failed |-> Contains(lower(text), "spf") /\ MentionsFailure(text),
                 DKIM_Failed |-> Contains(lower(text), "dkim") /\ MentionsFailure(text),
                 Processed_Date |-> now],
                headers))

\* RUFAnalyzer.add_report that knows the extension .html only
ruf_add_report_html_only(reports, file_path, exists, data, now) ==
    LET file_ext == lower(PathSuffix(file_path))
    IN  IF ~exists THEN reports
        ELSE IF file_ext = ".xml" THEN ruf_process_xml_report(reports, file_path, data, now)
        ELSE IF file_ext = ".html" THEN ruf_process_html_report(reports, file_path, data, now)
        ELSE reports

\* RUFAnalyzer.add_report
ruf_add_report(reports, file_path, exists, data, now) ==
    LET file_ext == lower(PathSuffix(file_path))
    IN  IF ~exists THEN reports
        ELSE IF file_ext = ".xml" THEN ruf_process_xml_report(reports, file_path, data, now)
        ELSE IF file_ext \in {".html", ".htm"} THEN ruf_process_html_report(reports, file_path, data, now)
        ELSE reports

(***************************************************************************)
(* The input directory of the extractor: top-level artifacts with nested   *)
(* containers in several combinations and member orders.                   *)
(***************************************************************************)
DocA == Doc("<?xml version='1.0'?><feedback>A</feedback>", NoBody)

DocB == Doc("<feedback>B</feedback>", NoBody)

DocH == Doc("<!DOCTYPE html><HTML><body>H</body></HTML>", NoBody)

DocG == Doc("<Html><body>G</body></Html>", NoBody)

DocT == Doc("plain text notes", NoBody)

File(path, data) == [path |-> path, data |-> data]

InputFiles ==
    { File("in/report.xml", DocA),
      File("in/a/report.xml", DocB),
      File("in/page.HTM", DocH),
      File("in/notes.txt", DocT),
      File("in/sniffed", DocG),
      File("in/b.zip", Zip(<<Entry("report.xml", DocB), Entry("sub/page.html", DocH),
                             Entry("readme.txt", DocT)>>)),
      File("in/c.zip", Zip(<<Entry("sub/page.html", DocG), Entry("report.xml", DocA),
                             Entry("inner.zip", Zip(<<Entry("report.xml", DocB)>>))>>)),
      File("in/report.xml.gz", Gz(DocA)),
      File("in/e.gz", Gz(DocA)),
      File("in/f.tar.gz", Gz(Tar(<<Entry("report.xml", DocA), Entry("x.gz", Gz(DocH))>>))),
      File("in/g.tgz", Gz(Tar(<<Entry("d/report.xml", DocB), Entry("bad.zip", Corrupt("zip")),
                                Entry("page.html", DocH)>>))),
      File("in/h.tar", Tar(<<Entry("page.html", DocG), Entry("report.xml", DocB)>>)),
      File("in/m.eml", Eml(<<[name |-> "", multipart |-> TRUE, data |-> DocT],
                             [name |-> "", multipart |-> FALSE, data |-> DocH],
                             Entry("report.xml", DocA),
                             Entry("att.zip", Zip(<<Entry("report.xml", DocB),
                                                    Entry("deep.xml.gz", Gz(DocA))>>)),
                             Entry("report.xml", DocB)>>)),
      File("in/fwd.eml", Eml(<<Entry("first.xml", DocA), Entry("original.eml", AttachedMessage),
                               Entry("second.xml", DocB)>>)),
      File("in/bad.zip", Corrupt("zip")),
      File("in/bad.gz", Corrupt("gz")),
      File("in/bad.tar", DocT),
      File("in/plain.eml", DocT),
      File("in/latest.xml", DocA),
      File("in/report_noext",
           Doc("<?xml version='1.0'?>",
               XmlBody(Elem("feedback", "", <<Elem("report_metadata", "", <<>>),
                                              Elem("record", "", <<>>)>>)))),
      File("in/archive", Zip(<<Entry("packed.xml", DocB)>>)),
      File("in/bundle.bin", Tar(<<Entry("rolled.xml", DocA)>>)),
      File("in/mail.msg", Eml(<<Entry("notice.xml", DocA), Entry("notice.zip", Zip(<<Entry("zipped.xml", DocB)>>))>>)) }

\* the symbolic links of the input directory, link -> target: in/latest.xml
\* is a link to in/report.xml
Links == [p \in {"in/latest.xml"} |-> "in/report.xml"]

\* Path.resolve(): the canonical path a path string denotes
resolve(p) == IF p \in DOMAIN Links THEN Links[p] ELSE p

\* the walks of extract_all: three files of the input directory in any order
WalkFiles ==
    {f \in InputFiles : f.path \in {"in/report.xml", "in/a/report.xml", "in/page.HTM",
                                     "in/b.zip", "in/bad.zip"}}

Walks ==
    {<<a, b, c>> : a, b, c \in WalkFiles} \ {w \in {<<a, b, c>> : a, b, c \in WalkFiles} :
                                                w[1] = w[2] \/ w[1] = w[3] \/ w[2] = w[3]}

(***************************************************************************)
(* The terminal documents an artifact holds, at any depth, in the order    *)
(* its containers are walked: the artifact itself for a document, the      *)
(* documents of the members for a container that opens.                    *)
(***************************************************************************)
TerminalExts == {".xml", ".html", ".htm"}

ContainerExts == {".zip", ".gz", ".tar", ".tgz", ".eml"}

RECURSIVE Documents(_, _)
RECURSIVE MemberDocuments(_, _)

MemberDocuments(members, i) ==
    IF i > Len(members) THEN <<>>
    ELSE (IF members[i].multipart \/ members[i].name = "" THEN <<>>
          ELSE Documents(PathName(members[i].name), members[i].data))
         \o MemberDocuments(members, i + 1)

Documents(name, data) ==
    LET ext == lower(PathSuffix(name))
    IN  CASE ext = ".zip" -> IF OpensAsZip(data) THEN MemberDocuments(data.members, 1) ELSE <<>>
          [] ext = ".gz" -> IF OpensAsGz(data)
                            THEN Documents(PathStem(name), data.members[1].data) ELSE <<>>
          [] ext \in {".tar", ".tgz"} ->
                 IF OpensAsTar(data) THEN MemberDocuments(TarMembers(data), 1) ELSE <<>>
          [] ext = ".eml" -> MemberDocuments(MailParts(data), 1)
          [] ext \in TerminalExts -> <<[name |-> name, data |-> data]>>
          [] OTHER -> IF LooksHtml(SniffPrefix(data)) \/ LooksXml(SniffPrefix(data))
                      THEN <<[name |-> name, data |-> data]>> ELSE <<>>

(***************************************************************************)
(* The directories handed to the classifier.  Every directory holds a few  *)
(* files; files of one directory share their bytes where the claims ask    *)
(* what identical bytes under different names give.                        *)
(***************************************************************************)
ClassifierTags ==
    <<"report_metadata", "record", "auth_failure", "policy_published", "original_message">>

TagSet == {ClassifierTags[i] : i \in 1..Len(ClassifierTags)}

\* one empty element per tag of S, in the order of ClassifierTags
ElemsOf(S) ==
    LET tags == SelectSeq(ClassifierTags, LAMBDA t : t \in S)
    IN  [i \in 1..Len(tags) |-> Elem(tags[i], "x", <<>>)]

XmlText == "<?xml version='1.0'?>"

\* a document whose root has the elements of S as children
XmlFlat(root_tag, S) == Doc(XmlText, XmlBody(Elem(root_tag, "", ElemsOf(S))))

\* a document whose root has them two levels down
XmlDeep(root_tag, S) ==
    Doc(XmlText, XmlBody(Elem(root_tag, "", <<Elem("wrapper", "", ElemsOf(S))>>)))

XmlDir(S) ==
    { File("extracted/aggregate.xml", XmlFlat("feedback", S)),
      File("extracted/forensic_ruf.xml", XmlFlat("feedback", S)),
      File("extracted/report.xml", XmlFlat("report", S)),
      File("extracted/deep.xml", XmlDeep("feedback", S)) }

\* documents whose root is itself one of the elements looked for, markup
\* that does not parse, and files the classifier has no track for
OddDir ==
    { File("extracted/root_is_failure.xml", Doc(XmlText, XmlBody(Elem("auth_failure", "spf", <<>>)))),
      File("extracted/root_is_record.xml",
           Doc(XmlText, XmlBody(Elem("record", "", ElemsOf({"report_metadata"}))))),
      File("extracted/broken.xml", Doc(XmlText \o "<feedback>", BrokenXml)),
      File("extracted/rua_notes.txt", Doc("aggregate report", NoBody)),
      File("extracted/sniffed", XmlFlat("feedback", {"report_metadata", "record"})),
      File("extracted/rejected.html", Doc("<![n", RejectedHtml)),
      File("extracted/good.xml", XmlFlat("feedback", {"report_metadata", "record"})) }

\* a records table: a header row and n data rows
HeaderRow == <<Th("IP"), Th("Messages"), Th("DKIM"), Th("SPF")>>

DataRow == <<Td("10.0.0.1"), Td("5"), Td("pass"), Td("fail")>>

RecordsTable(n) == <<HeaderRow>> \o [i \in 1..n |-> DataRow]

HtmlText == "<html><body>"

HtmlDoc(free, tables) == Doc(HtmlText, HtmlBody(free, tables))

HtmlNames ==
    {"extracted/report_42.html", "extracted/Google_RUA.HTM", "extracted/failure_7.html",
     "extracted/aggregate_forensic.html"}

HtmlDir(free, tables) == {File(n, HtmlDoc(free, tables)) : n \in HtmlNames}

NoKeywords == "Weekly summary for example.com"

RuaText == "DMARC Aggregate Report for example.com. Source IP and Message Count below."

RufText == "Forensic Report: Auth Failure for example.com"

MailHeaders == "Received: by mx.example.com From: a@example.com Subject: hello"

TwoHeaders == "Received: by mx.example.com From: a@example.com"

TieText == "Source IP 10.0.0.1; failure report"

MixedText == "Aggregate report; original message follows. Received: mx From: a Subject: s"

ClassifyDirs ==
    {XmlDir(S) : S \in SUBSET TagSet}
    \cup {OddDir}
    \cup {HtmlDir(t, <<>>) : t \in {NoKeywords, RuaText, RufText, MailHeaders, TwoHeaders,
                                    TieText, MixedText}}
    \cup {HtmlDir(NoKeywords, <<RecordsTable(n)>>) : n \in {4, 5, 7}}
    \cup {HtmlDir(t, <<RecordsTable(2), RecordsTable(7)>>) : t \in {RufText, MailHeaders, MixedText}}

\* files for classify_all: reports of both kinds, markup that does not
\* parse, a file without extension and a report the copy fails on
ClassifyPool ==
    {f \in OddDir : f.path \in {"extracted/broken.xml", "extracted/sniffed",
                                 "extracted/rejected.html", "extracted/good.xml"}}
    \cup { File("extracted/locked.xml", XmlFlat("feedback", {"report_metadata", "record"})),
           File("extracted/failure_7.html", HtmlDoc(RufText, <<>>)),
           File("extracted/forensic.xml", XmlFlat("feedback", {"auth_failure"})) }

ClassifyAllDirs == {d \in SUBSET ClassifyPool : Cardinality(d) <= 3}

\* the sources of direct _copy_html / _copy_xml / _move_file calls
CopySources ==
    { File("in/a/report.xml", DocA), File("in/b/report.xml", DocB),
      File("in/c/report_1.xml", DocB), File("in/page.html", DocH) }

(***************************************************************************)
(* The reports given to the aggregate analyzers: XML documents whose       *)
(* records carry every short list of dkim and spf sub-results, documents   *)
(* that fail part-way, and HTML reports with tables.                       *)
(***************************************************************************)
Leaf(tag, text) == Elem(tag, text, <<>>)

\* a path add_report is given that names no file
Missing == [kind |-> "missing", ok |-> FALSE, text |-> "", members |-> <<>>, body |-> NoBody]

\* os.path.exists / Path.exists
FileExists(f) == f.data.kind # "missing"

\* <dkim> or <spf> inside auth_results with its <result>
AuthEntry(tag, result) ==
    Elem(tag, "", <<Leaf("domain", "example.com"), Leaf("result", result)>>)

AuthResults(dkims, spfs) ==
    Elem("auth_results", "",
         [i \in 1..Len(dkims) |-> AuthEntry("dkim", dkims[i])]
         \o [i \in 1..Len(spfs) |-> AuthEntry("spf", spfs[i])])

RowElem(ip, count) ==
    Elem("row", "",
         <<Leaf("source_ip", ip), Leaf("count", count),
           Elem("policy_evaluated", "",
                <<Leaf("disposition", "none"), Leaf("dkim", "pass"), Leaf("spf", "pass")>>)>>)

Identifiers == Elem("identifiers", "", <<Leaf("header_from", "example.com")>>)

RecordElem(ip, count, dkims, spfs) ==
    Elem("record", "", <<RowElem(ip, count), Identifiers, AuthResults(dkims, spfs)>>)

\* a record without auth_results
RecordNoAuth(ip, count) == Elem("record", "", <<RowElem(ip, count), Identifiers>>)

\* a record without row
RecordNoRow == Elem("record", "", <<Identifiers, AuthResults(<<"pass">>, <<"pass">>)>>)

AggregateDoc(report_id, domain, records) ==
    Doc(XmlText,
        XmlBody(Elem("feedback", "",
            <<Elem("report_metadata", "",
                   <<Leaf("org_name", "google.com"), Leaf("email", "noreply@google.com"),
                     Leaf("report_id", report_id),
                     Elem("date_range", "", <<Leaf("begin", "1700000000"), Leaf("end", "1700086399")>>)>>),
              Elem("policy_published", "", <<Leaf("domain", domain), Leaf("p", "reject")>>)>>
            \o records)))

Shorts == << <<>>, <<"pass">>, <<"fail">>, <<"Pass">>, <<"">> >>

Longs ==
    << <<"pass", "pass">>, <<"pass", "fail">>, <<"fail", "pass">>, <<"fail", "fail">>,
       <<"fail", "pass", "fail">>, <<"fail", "fail", "pass">>, <<"pass", "fail", "fail">> >>

ResultLists == {Shorts[i] : i \in 1..Len(Shorts)} \cup {Longs[i] : i \in 1..Len(Longs)}

\* one record per spf list of the sequence, all with the dkim list dkims
RecordsOver(dkims, spf_lists) ==
    [i \in 1..Len(spf_lists) |-> RecordElem("10.0.0." \o ToString(i), ToString(i), dkims, spf_lists[i])]

AuthDir(dkims) ==
    { File("rua/short.xml",
           AggregateDoc("short", "example.com",
                        RecordsOver(dkims, Shorts) \o <<RecordNoAuth("10.0.1.1", "3")>>)),
      File("rua/long.xml", AggregateDoc("long", "example.com", RecordsOver(dkims, Longs))) }

\* the report of the scenario: id R1, one record, count 5, SPF pass, DKIM fail
R1Doc ==
    AggregateDoc("R1", "example.com", <<RecordElem("10.0.0.1", "5", <<"fail">>, <<"pass">>)>>)

AllPassDoc ==
    AggregateDoc("R2", "example.org",
                 <<RecordElem("10.0.0.2", " 12 ", <<"pass">>, <<"pass">>),
                   RecordElem("10.0.0.3", "1_000", <<"fail", "pass">>, <<"pass", "fail">>)>>)

\* the third record's count is no integer
BadCountDoc ==
    AggregateDoc("R3", "example.com",
                 <<RecordElem("10.0.0.4", "7", <<"pass">>, <<"pass">>),
                   RecordElem("10.0.0.5", "2", <<"fail">>, <<"fail">>),
                   RecordElem("10.0.0.6", "five", <<"pass">>, <<"fail">>),
                   RecordElem("10.0.0.7", "1", <<"fail">>, <<"pass">>)>>)

\* the second record has no row
NoRowDoc ==
    AggregateDoc("R4", "example.com",
                 <<RecordElem("10.0.0.8", "4", <<"pass">>, <<"fail">>), RecordNoRow,
                   RecordElem("10.0.0.9", "1", <<"pass">>, <<"pass">>)>>)

RuaHtmlText ==
    "DMARC Aggregate Report\nReport ID: R9\nOrganization: Example Org \n"
    \o "Email: dmarc@example.org\n2024-01-01 to 2024-01-02\nDomain: example.com\nPolicy: Reject\n"

RuaHeaderRow ==
    <<Th("Source IP"), Th("Count"), Th("DKIM"), Th("SPF"), Th("Disposition"), Th("Header From")>>

RuaRow(ip, count, dkim, spf) ==
    <<Td(ip), Td(count), Td(dkim), Td(spf), Td("None"), Td("example.com")>>

RuaTable ==
    <<RuaHeaderRow,
      RuaRow("10.0.0.1", "1,234", "pass", "pass"),
      RuaRow("10.0.0.2", "5", "pass", "fail"),
      <<Td("subtotal"), Td("2")>>,
      RuaRow(" 10.0.0.3 ", "n/a", "Fail", "PASS"),
      RuaRow("10.0.0.4", "2", "fail", "softfail"),
      RuaRow("10.0.0.5", "-2", "pass", "pass")>>

\* a table that is no records table
LegendTable == <<<<Th("Legend"), Th("Meaning")>>, <<Td("p"), Td("policy"), Td("requested")>>>>

ScenarioDir ==
    { File("rua/R1.xml", R1Doc),
      File("rua/table.html", HtmlDoc(RuaHtmlText, <<RuaTable>>)),
      File("rua/bad_count.xml", BadCountDoc) }

FailingDir ==
    { File("rua/broken.xml", Doc(XmlText \o "<feedback>", BrokenXml)),
      File("rua/all_pass.xml", AllPassDoc),
      File("rua/no_row.xml", NoRowDoc),
      File("rua/negative.xml",
           AggregateDoc("R5", "example.com",
                        <<RecordElem("10.0.0.10", "-3", <<"pass">>, <<"pass">>)>>)) }

MixedDir ==
    { File("rua/REPORT.HTM", HtmlDoc(NoKeywords, <<LegendTable, RuaTable>>)),
      File("rua/notes.txt", R1Doc),
      File("rua/gone.xml", Missing) }

AggregateDirs == {AuthDir(dkims) : dkims \in ResultLists} \cup {ScenarioDir, FailingDir, MixedDir}

(***************************************************************************)
(* The reports given to the forensic analyzer.                             *)
(***************************************************************************)
FullFailureText ==
    "Forensic Report\nSource IP: 192.0.2.1\nAuthentication-Results: mx.example.com; spf=fail \n"
    \o "Reported Domain: example.com\nArrival Date: Mon, 01 Jan 2024\nDelivery Result: reject\n"
    \o "DMARC Policy: Reject\nFrom: a@example.com\nTo: b@example.com\nSubject: hi\n"
    \o "Message-ID: <1@example.com>\n"

FailureTexts ==
    {"SPF permerror; DKIM fail", "SPF fail", "DKIM failed", "SPF pass; DKIM pass",
     "SPF pass, DKIM fail",
     "dkim=fail (bad signature) spf=fail", "Delivery failed", FullFailureText}

ForensicXml(auth_failure, message) ==
    Doc(XmlText,
        XmlBody(Elem("feedback", "",
            <<Leaf("report_id", "F1"), Leaf("source_ip", "192.0.2.1"),
              Leaf("auth_failure", auth_failure), Leaf("reported_domain", "example.com"),
              Leaf("from", "element@example.com"), Leaf("subject", "element subject"),
              Elem("original_message", message, <<>>)>>)))

XmlFailureOf(text) ==
    IF Contains(lower(text), "spf") /\ Contains(lower(text), "dkim") THEN "SPF, DKIM"
    ELSE IF Contains(lower(text), "spf") THEN "spf"
    ELSE IF Contains(lower(text), "dkim") THEN "dkim"
    ELSE ""

ForensicDir(text) ==
    { File("ruf/Failure_1.HTM", HtmlDoc(text, <<<<<<Td("Result"), Td("rejected")>>>>>>)),
      File("ruf/forensic.xml",
           ForensicXml(XmlFailureOf(text), "From: message@example.com\nTo: rcpt@example.com\n")) }

OddForensicDir ==
    { File("ruf/broken.xml", Doc(XmlText \o "<feedback>", BrokenXml)),
      File("ruf/notes.txt", Doc("SPF fail", NoBody)),
      File("ruf/gone.html", Missing),
      File("ruf/bare.xml", ForensicXml("dkim", "")),
      File("ruf/rejected.html", Doc("<![n", RejectedHtml)),
      File("ruf/sparse.xml", Doc(XmlText, XmlBody(Elem("feedback", "", <<>>)))) }

ForensicDirs == {ForensicDir(t) : t \in FailureTexts} \cup {OddForensicDir}

\* an HTML report with a three-column table and no other text, and an XML
\* report whose only record has an empty row
SparseDir ==
    { File("mix/rows.html",
           HtmlDoc("Weekly", <<<<<<Th("IP"), Th("Count"), Th("SPF")>>,
                                 <<Td("10.0.0.1"), Td("7"), Td("pass")>>>>>>)),
      File("mix/bare.xml",
           Doc(XmlText, XmlBody(Elem("feedback", "", <<Elem("record", "", <<Leaf("row", "")>>)>>)))) }

\* directories with reports of both kinds, complete and sparse
SchemaDirs == {SparseDir, FailingDir, OddForensicDir, ForensicDir("Delivery failed")}

EmptyDir == [n \in {} |-> NoBody]

\* the input directories of run_full_pipeline: reports of both kinds, bare
\* and inside containers, and a file that is no report
PipelineFiles ==
    { File("in/agg.xml", R1Doc),
      File("in/forensic.zip",
           Zip(<<Entry("failure.xml", ForensicXml("spf", "From: message@example.com\n")),
                 Entry("notes.txt", DocT)>>)),
      File("in/rows.htm",
           HtmlDoc("Weekly", <<<<<<Th("IP"), Th("Count"), Th("SPF")>>,
                                 <<Td("10.0.0.1"), Td("7"), Td("pass")>>>>>>)),
      File("in/notes.txt", DocT) }

\* walks of an empty directory, of one file and of two files
PipelineWalks ==
    {<<>>} \cup {<<a>> : a \in PipelineFiles}
           \cup {w \in {<<a, b>> : a, b \in PipelineFiles} : w[1] # w[2]}

\* reports/extracted before the run: empty, or with a report of an earlier run
EarlierOutputs == {EmptyDir, [n \in {"old.xml"} |-> AllPassDoc]}

\* the values datetime.now() takes, formatted
Clock == {"2024-01-02 03:04:05", "2024-01-02 03:04:06"}

(***************************************************************************)
(* State.                                                                  *)
(***************************************************************************)
VARIABLES
    processed_files,     \* FileExtractor.processed_files
    extracted_files,     \* FileExtractor.extracted_files
    outdir,              \* the files of FileExtractor.output_dir: name -> content
    tmp_count,           \* temporary directories created so far
    dispatched,          \* history: path -> times its dispatch was entered
    call_path,           \* the path argument of the latest call
    leaf_docs,           \* history: the documents of the artifacts processed
    walk,                \* the files of the input directory, in the order the walk of
                         \* the directory (rglob, glob) gives them
    extract_returned,    \* what the latest extract_all returned
    rua_dir,             \* the files of ReportClassifier.rua_dir
    ruf_dir,             \* the files of ReportClassifier.ruf_dir
    rua_files,           \* ReportClassifier.rua_files
    ruf_files,           \* ReportClassifier.ruf_files
    unclassified_files,  \* ReportClassifier.unclassified_files
    class_input,         \* the files of the directory given to classify_all
    class_log,           \* history: path, bytes and verdict of every classification,
                         \* with the two scores _classify_html reached
    classify_returned,   \* what the latest classify_all returned
    rua_reports_data,    \* RUAAnalyzer.reports_data
    rua_failed_records,  \* RUAAnalyzer.failed_records
    rua_sources,         \* history: what each record of rua_reports_data was made from
    dmarc_reports_data,  \* DMARCAnalyzer.reports_data
    dmarc_failed_records,\* DMARCAnalyzer.failed_records
    dmarc_sources,       \* history: what each record of dmarc_reports_data was made from
    ruf_reports_data,    \* RUFAnalyzer.reports_data
    ruf_sources,         \* history: the file each record of ruf_reports_data was made from
    report_input,        \* the report files the analyzers are given
    n_calls,             \* number of calls made so far
    stage,               \* the position of run_full_pipeline
    skip_extraction,     \* the argument skip_extraction of run_full_pipeline
    rua_given,           \* history: the paths run_full_pipeline gave to RUAAnalyzer.add_report
    ruf_given            \* history: the paths run_full_pipeline gave to RUFAnalyzer.add_report

extractor_vars == <<processed_files, extracted_files, outdir, tmp_count, dispatched, leaf_docs,
                    walk, extract_returned>>

classifier_vars == <<rua_dir, ruf_dir, rua_files, ruf_files, unclassified_files,
                     class_input, class_log, classify_returned>>

rua_vars == <<rua_reports_data, rua_failed_records, rua_sources>>

dmarc_vars == <<dmarc_reports_data, dmarc_failed_records, dmarc_sources>>

ruf_vars == <<ruf_reports_data, ruf_sources>>

analyzer_vars == <<rua_vars, dmarc_vars, ruf_vars, report_input>>

pipeline_vars == <<stage, skip_extraction, rua_given, ruf_given>>

vars == <<extractor_vars, classifier_vars, analyzer_vars, call_path, n_calls, pipeline_vars>>

\* FileExtractor.__init__ on a fresh output directory
ExtractorInit ==
    /\ processed_files = {}
    /\ extracted_files = <<>>
    /\ outdir = EmptyDir
    /\ tmp_count = 0
    /\ dispatched = [p \in {} |-> 0]
    /\ leaf_docs = <<>>
    /\ extract_returned = <<>>

\* ReportClassifier.__init__ on fresh directories
ClassifierInit ==
    /\ rua_dir = EmptyDir
    /\ ruf_dir = EmptyDir
    /\ rua_files = <<>>
    /\ ruf_files = <<>>
    /\ unclassified_files = <<>>
    /\ class_log = <<>>
    /\ classify_returned = NoneClassified

\* RUAAnalyzer.__init__, DMARCAnalyzer.__init__ and RUFAnalyzer.__init__
AnalyzerInit ==
    /\ rua_reports_data = <<>>
    /\ rua_failed_records = <<>>
    /\ rua_sources = <<>>
    /\ dmarc_reports_data = <<>>
    /\ dmarc_failed_records = <<>>
    /\ dmarc_sources = <<>>
    /\ ruf_reports_data = <<>>
    /\ ruf_sources = <<>>

ExtractorState ==
    [processed_files |-> processed_files, extracted_files |-> extracted_files,
     outdir |-> outdir, tmp_count |-> tmp_count, dispatched |-> dispatched]

SetExtractor(x) ==
    /\ processed_files' = x.processed_files
    /\ extracted_files' = x.extracted_files
    /\ outdir' = x.outdir
    /\ tmp_count' = x.tmp_count
    /\ dispatched' = x.dispatched

ClassifierState ==
    [rua_dir |-> rua_dir, ruf_dir |-> ruf_dir, rua_files |-> rua_files,
     ruf_files |-> ruf_files, unclassified_files |-> unclassified_files]

SetClassifier(c) ==
    /\ rua_dir' = c.rua_dir
    /\ ruf_dir' = c.ruf_dir
    /\ rua_files' = c.rua_files
    /\ ruf_files' = c.ruf_files
    /\ unclassified_files' = c.unclassified_files

Call(path) ==
    /\ n_calls < MaxCalls
    /\ n_calls' = n_calls + 1
    /\ call_path' = path

\* one call self._process_file(file_path) on a file of the input directory,
\* as extract_all makes for every file of the walk
ProcessFile(f) ==
    /\ Call(f.path)
    /\ SetExtractor(_process_file(ExtractorState, f.path, f.data))
    /\ leaf_docs' = IF f.path \in processed_files THEN leaf_docs
                    ELSE leaf_docs \o Documents(PathName(f.path), f.data)
    /\ UNCHANGED <<walk, extract_returned, classifier_vars, analyzer_vars>>
    /\ UNCHANGED pipeline_vars

\* a direct call self._copy_html(html_path)
CopyHtml(f) ==
    /\ Call(f.path)
    /\ SetExtractor(_copy_html(ExtractorState, f.path, f.data))
    /\ UNCHANGED <<leaf_docs, walk, extract_returned, classifier_vars, analyzer_vars>>
    /\ UNCHANGED pipeline_vars

\* a direct call self._copy_xml(xml_path)
CopyXml(f) ==
    /\ Call(f.path)
    /\ SetExtractor(_copy_xml(ExtractorState, f.path, f.data))
    /\ UNCHANGED <<leaf_docs, walk, extract_returned, classifier_vars, analyzer_vars>>
    /\ UNCHANGED pipeline_vars

\* a direct call self._move_file(file_path, report_type)
MoveFile(f, report_type) ==
    /\ Call(f.path)
    /\ SetClassifier(_move_file(ClassifierState, f.path, report_type, f.data))
    /\ UNCHANGED <<extractor_vars, class_input, class_log, classify_returned, analyzer_vars>>
    /\ UNCHANGED pipeline_vars

RECURSIVE WalkDocuments(_, _)
\* the documents of the files[i..] that are not yet in processed_files
WalkDocuments(files, i) ==
    IF i > Len(files) THEN <<>>
    ELSE (IF files[i].path \in processed_files THEN <<>>
          ELSE Documents(PathName(files[i].path), files[i].data))
         \o WalkDocuments(files, i + 1)

\* one call self.extract_all(input_dir): on the input directory, or on a
\* directory that is not there
ExtractAll(input_dir) ==
    /\ Call(input_dir)
    /\ LET r == extract_all(ExtractorState, input_dir = InputRoot, walk)
       IN  /\ SetExtractor(r.x)
           /\ extract_returned' = r.returns
    /\ leaf_docs' = IF input_dir = InputRoot THEN leaf_docs \o WalkDocuments(walk, 1)
                    ELSE leaf_docs
    /\ UNCHANGED <<walk, classifier_vars, analyzer_vars>>
    /\ UNCHANGED pipeline_vars

\* FileExtractor(output_dir) constructed again for the same output
\* directory: mkdir(exist_ok=True) keeps the files that are there
NewExtractor ==
    /\ processed_files' = {}
    /\ extracted_files' = <<>>
    /\ dispatched' = [p \in {} |-> 0]
    /\ leaf_docs' = <<>>
    /\ UNCHANGED <<outdir, tmp_count, walk, extract_returned, classifier_vars, analyzer_vars,
                   call_path, n_calls>>
    /\ UNCHANGED pipeline_vars

IsHtmlExt(path) == lower(PathSuffix(path)) \in {".html", ".htm"}

\* the list _classify_file appended to tells the verdict it reached
VerdictOf(c1, c2) ==
    IF Len(c2.rua_files) > Len(c1.rua_files) THEN "rua"
    ELSE IF Len(c2.ruf_files) > Len(c1.ruf_files) THEN "ruf"
    ELSE "unclassified"

\* the entry of the history for the classification of f by a classifier in
\* state c
LogEntry(c, f) ==
    [path |-> f.path, data |-> f.data,
     verdict |-> VerdictOf(c, _classify_file(c, f.path, f.data)),
     rua_score |-> IF IsHtmlExt(f.path) THEN rua_score(f.data) ELSE 0,
     ruf_score |-> IF IsHtmlExt(f.path) THEN ruf_score(f.data) ELSE 0]

\* one call self._classify_file(file_path) on a file of the directory, as
\* classify_all makes for every file of the glob
ClassifyFile(f) ==
    /\ Call(f.path)
    /\ SetClassifier(_classify_file(ClassifierState, f.path, f.data))
    /\ class_log' = Append(class_log, LogEntry(ClassifierState, f))
    /\ UNCHANGED <<extractor_vars, class_input, classify_returned, analyzer_vars>>
    /\ UNCHANGED pipeline_vars

RuaState ==
    [reports_data |-> rua_reports_data, failed_records |-> rua_failed_records,
     sources |-> rua_sources]

SetRua(a) ==
    /\ rua_reports_data' = a.reports_data
    /\ rua_failed_records' = a.failed_records
    /\ rua_sources' = a.sources

DmarcState ==
    [reports_data |-> dmarc_reports_data, failed_records |-> dmarc_failed_records,
     sources |-> dmarc_sources]

SetDmarc(a) ==
    /\ dmarc_reports_data' = a.reports_data
    /\ dmarc_failed_records' = a.failed_records
    /\ dmarc_sources' = a.sources

\* one call RUAAnalyzer.add_report(file_path)
AddRuaReport(f) ==
    /\ Call(f.path)
    /\ SetRua(add_report(RuaState, f.path, FileExists(f), f.data))
    /\ UNCHANGED <<extractor_vars, classifier_vars, dmarc_vars, ruf_vars, report_input>>
    /\ UNCHANGED pipeline_vars

\* one call DMARCAnalyzer.add_report(xml_file)
AddDmarcReport(f) ==
    /\ Call(f.path)
    /\ SetDmarc(dmarc_add_report(DmarcState, f.path, FileExists(f), f.data))
    /\ UNCHANGED <<extractor_vars, classifier_vars, rua_vars, ruf_vars, report_input>>
    /\ UNCHANGED pipeline_vars

\* one call RUFAnalyzer.add_report(file_path), made at the time now
AddRufReport(f, now) ==
    /\ Call(f.path)
    /\ LET reports == ruf_add_report(ruf_reports_data, f.path, FileExists(f), f.data, now)
       IN  /\ ruf_reports_data' = reports
           /\ ruf_sources' = IF Len(reports) > Len(ruf_reports_data)
                             THEN Append(ruf_sources, f) ELSE ruf_sources
    /\ UNCHANGED <<extractor_vars, classifier_vars, rua_vars, dmarc_vars, report_input>>
    /\ UNCHANGED pipeline_vars

\* run_full_pipeline is not running
NoPipeline ==
    /\ stage = "idle"
    /\ skip_extraction = FALSE
    /\ rua_given = <<>>
    /\ ruf_given = <<>>

Fresh ==
    /\ ExtractorInit
    /\ ClassifierInit
    /\ AnalyzerInit
    /\ NoPipeline
    /\ call_path = ""
    /\ n_calls = 0

Init ==
    /\ Fresh
    /\ walk = <<>>
    /\ class_input = {}
    /\ report_input = {}

NextExtract == \E f \in InputFiles : ProcessFile(f)

\* the extractor run over the input directory
SpecExtract == Init /\ [][NextExtract]_vars

NextCopy ==
    \/ \E f \in CopySources : PathSuffix(f.path) = ".html" /\ CopyHtml(f)
    \/ \E f \in CopySources : PathSuffix(f.path) = ".xml" /\ CopyXml(f)
    \/ \E f \in CopySources : \E t \in {"rua", "ruf", "unclassified"} : MoveFile(f, t)

\* arbitrary sequences of the three writers
SpecCopy == Init /\ [][NextCopy]_vars

InitClassify ==
    /\ Fresh
    /\ walk = <<>>
    /\ class_input \in ClassifyDirs
    /\ report_input = {}

NextClassify == \E f \in class_input : ClassifyFile(f)

\* the classifier run over one directory
SpecClassify == InitClassify /\ [][NextClassify]_vars

InitAggregate ==
    /\ Fresh
    /\ walk = <<>>
    /\ class_input = {}
    /\ report_input \in AggregateDirs

NextAggregate ==
    \/ \E f \in report_input : AddRuaReport(f)
    \/ \E f \in report_input : AddDmarcReport(f)

\* the two aggregate analyzers fed the reports of one directory, in any order
SpecAggregate == InitAggregate /\ [][NextAggregate]_vars

InitForensic ==
    /\ Fresh
    /\ walk = <<>>
    /\ class_input = {}
    /\ report_input \in ForensicDirs

NextForensic == \E f \in report_input : \E now \in Clock : AddRufReport(f, now)

\* the forensic analyzer fed the reports of one directory, in any order
SpecForensic == InitForensic /\ [][NextForensic]_vars

InitRerun ==
    /\ Fresh
    /\ walk \in Walks
    /\ class_input = {}
    /\ report_input = {}

NextRerun ==
    \/ \E input_dir \in {InputRoot, MissingRoot} : ExtractAll(input_dir)
    \/ NewExtractor

\* runs of extract_all over one unchanged input directory, by one
\* FileExtractor or by new ones made for the same output directory
SpecRerun == InitRerun /\ [][NextRerun]_vars

(***************************************************************************)
(* run_full_pipeline (src/main.py).  Its stages are steps: stage tells     *)
(* where the function is.                                                  *)
(*   start      entered                                                    *)
(*   extracted  extract_all has returned                                   *)
(*   classify   before PARTE 2                                             *)
(*   analyze    classify_all has returned, before PARTE 3                  *)
(*   done       returned at the end                                        *)
(*   returned   returned after PARTE 1                                     *)
(*   raised     left by an exception                                       *)
(* The workbooks generate_report writes are outside the state.             *)
(***************************************************************************)
\* stats[key]: a KeyError for a key the dict does not have
HasKey(dict, key) == key \in DOMAIN dict

\* the orders in which a walk can yield the files of a directory
Orders(S) ==
    {o \in [1..Cardinality(S) -> S] : \A i, j \in 1..Cardinality(S) : o[i] = o[j] => i = j}

\* the files of the output directory of the extractor
ExtractedDir == {File(Join(OutputDir, n), outdir[n]) : n \in DOMAIN outdir}

RECURSIVE LogAll(_, _, _)
LogAll(c, files, i) ==
    IF i > Len(files) THEN <<>>
    ELSE <<LogEntry(c, files[i])>>
         \o LogAll(_classify_file(c, files[i].path, files[i].data), files, i + 1)

RECURSIVE AddAllRua(_, _, _)
\* for rua_file in stats['rua_files']: rua_analyzer.add_report(rua_file)
AddAllRua(a, paths, i) ==
    IF i > Len(paths) THEN a
    ELSE AddAllRua(add_report(a, paths[i], TRUE, rua_dir[PathName(paths[i])]), paths, i + 1)

RECURSIVE AddAllRuf(_, _, _, _)
\* for ruf_file in stats['ruf_files']: ruf_analyzer.add_report(ruf_file)
AddAllRuf(r, paths, i, now) ==
    IF i > Len(paths) THEN r
    ELSE LET data    == ruf_dir[PathName(paths[i])]
             reports == ruf_add_report(r.reports, paths[i], TRUE, data, now)
         IN  AddAllRuf([reports |-> reports,
                        sources |-> IF Len(reports) > Len(r.reports)
                                    THEN Append(r.sources, File(paths[i], data)) ELSE r.sources],
                       paths, i + 1, now)

\* PARTE 1: extractor = FileExtractor(extracted_dir); extractor.extract_all(input_dir)
PipelineExtract ==
    /\ stage = "start" /\ ~skip_extraction
    /\ stage' = "extracted"
    /\ LET r == extract_all(ExtractorState, TRUE, walk)
       IN  /\ SetExtractor(r.x)
           /\ extract_returned' = r.returns
    /\ leaf_docs' = leaf_docs \o WalkDocuments(walk, 1)
    /\ UNCHANGED <<walk, classifier_vars, analyzer_vars, call_path, n_calls,
                   skip_extraction, rua_given, ruf_given>>

\* stats = extractor.get_statistics(); if stats['total_files'] == 0: return
PipelineStatistics ==
    /\ stage = "extracted"
    /\ LET stats == get_statistics(ExtractorState)
       IN  stage' = IF ~HasKey(stats, "total_files") THEN "raised"
                    ELSE IF stats["total_files"] = 0 THEN "returned"
                    ELSE "classify"
    /\ UNCHANGED <<extractor_vars, classifier_vars, analyzer_vars, call_path, n_calls,
                   skip_extraction, rua_given, ruf_given>>

\* else: "Skipping extraction (using existing files)"
PipelineSkip ==
    /\ stage = "start" /\ skip_extraction
    /\ stage' = "classify"
    /\ UNCHANGED <<extractor_vars, classifier_vars, analyzer_vars, call_path, n_calls,
                   skip_extraction, rua_given, ruf_given>>

\* PARTE 2: classifier = ReportClassifier(...); classifier.classify_all(extracted_dir)
PipelineClassify ==
    /\ stage = "classify"
    /\ stage' = "analyze"
    /\ class_input' = ExtractedDir
    /\ \E files \in Orders(ExtractedDir) :
         LET r == classify_all(ClassifierState, TRUE, files)
         IN  /\ SetClassifier(r.c)
             /\ classify_returned' = r.returns
             /\ class_log' = class_log \o LogAll(ClassifierState, files, 1)
    /\ UNCHANGED <<extractor_vars, analyzer_vars, call_path, n_calls,
                   skip_extraction, rua_given, ruf_given>>

\* PARTE 3: each analyzer is made and fed when its list is not empty; the
\* calls of the stage read the clock within one second
PipelineAnalyze ==
    /\ stage = "analyze"
    /\ stage' = "done"
    /\ SetRua(AddAllRua(RuaState, rua_files, 1))
    /\ rua_given' = rua_files
    /\ \E now \in Clock :
         LET r == AddAllRuf([reports |-> ruf_reports_data, sources |-> ruf_sources],
                            ruf_files, 1, now)
         IN  /\ ruf_reports_data' = r.reports
             /\ ruf_sources' = r.sources
    /\ ruf_given' = ruf_files
    /\ UNCHANGED <<extractor_vars, classifier_vars, dmarc_vars, report_input, call_path, n_calls,
                   skip_extraction>>

\* run_full_pipeline(input_dir, skip_extraction=...) entered, the
\* directory reports/extracted empty or holding the files of an earlier run
InitPipeline ==
    /\ processed_files = {}
    /\ extracted_files = <<>>
    /\ outdir \in EarlierOutputs
    /\ tmp_count = 0
    /\ dispatched = [p \in {} |-> 0]
    /\ leaf_docs = <<>>
    /\ extract_returned = <<>>
    /\ walk \in PipelineWalks
    /\ ClassifierInit
    /\ class_input = {}
    /\ AnalyzerInit
    /\ report_input = {}
    /\ call_path = InputRoot
    /\ n_calls = 0
    /\ stage = "start"
    /\ skip_extraction \in BOOLEAN
    /\ rua_given = <<>>
    /\ ruf_given = <<>>

NextPipeline ==
    \/ PipelineExtract
    \/ PipelineStatistics
    \/ PipelineSkip
    \/ PipelineClassify
    \/ PipelineAnalyze

\* the stages at which run_full_pipeline has a statement to run
Running == {"start", "extracted", "classify", "analyze"}

Stages == Running \cup {"done", "returned", "raised"}

\* the function leaves the stage it is at; at every stage of Running one of
\* the five steps can be taken, their guards test the stage only
Advance == stage \in Running /\ stage' \in Stages /\ stage' # stage

\* one call of run_full_pipeline; nothing holds the function up, it goes
\* on as long as it has a statement to run
SpecPipeline == InitPipeline /\ [][NextPipeline]_vars /\ WF_stage(Advance)

\* one call self.classify_all(input_dir): on the input directory, or on a
\* directory that is not there
ClassifyAllCall(input_dir) ==
    /\ Call(input_dir)
    /\ LET r == classify_all(ClassifierState, input_dir = OutputDir, walk)
       IN  /\ SetClassifier(r.c)
           /\ classify_returned' = r.returns
    /\ class_log' = IF input_dir = OutputDir THEN class_log \o LogAll(ClassifierState, walk, 1)
                    ELSE class_log
    /\ UNCHANGED <<extractor_vars, class_input, analyzer_vars, pipeline_vars>>

InitClassifyAll ==
    /\ processed_files = {}
    /\ extracted_files = <<>>
    /\ outdir = EmptyDir
    /\ tmp_count = 0
    /\ dispatched = [p \in {} |-> 0]
    /\ leaf_docs = <<>>
    /\ extract_returned = <<>>
    /\ ClassifierInit
    /\ AnalyzerInit
    /\ NoPipeline
    /\ call_path = ""
    /\ n_calls = 0
    /\ report_input = {}
    /\ class_input \in ClassifyAllDirs
    /\ walk \in Orders(class_input)

NextClassifyAll == \E input_dir \in {OutputDir, MissingRoot} : ClassifyAllCall(input_dir)

\* calls of classify_all by one classifier on a directory of up to three
\* files, listed in any order, and on a directory that does not exist
SpecClassifyAll == InitClassifyAll /\ [][NextClassifyAll]_vars

InitAnalyze ==
    /\ Fresh
    /\ walk = <<>>
    /\ class_input = {}
    /\ report_input \in SchemaDirs

NextAnalyze ==
    \/ \E f \in report_input : AddRuaReport(f)
    \/ \E f \in report_input : \E now \in Clock : AddRufReport(f, now)

\* the aggregate and the forensic analyzer fed the files of one directory,
\* whatever kind of report each file is
SpecAnalyze == InitAnalyze /\ [][NextAnalyze]_vars

(***************************************************************************)
(* Properties of the extractor.                                            *)
(***************************************************************************)
TopLevelPaths == {f.path : f \in InputFiles}

\* C1: within one run no path goes through the dispatch of _process_file
\* twice: a call on a path already in processed_files changes neither
\* processed_files nor extracted_files nor the output directory, and every
\* path has entered the dispatch table at most once.
C1_ProcessedOnce ==
    [][ /\ (call_path' \in processed_files =>
               UNCHANGED <<processed_files, extracted_files, outdir, tmp_count>>)
        /\ \A p \in DOMAIN dispatched' : dispatched'[p] <= 1 ]_vars

\* two calls were made on one artifact holding documents: the second one
\* found its path in processed_files
C1_Witness ==
    /\ n_calls = 2
    /\ Cardinality(processed_files \cap TopLevelPaths) = 1
    /\ call_path \in processed_files
    /\ dispatched[call_path] = 1
    /\ Len(extracted_files) >= 1

\* C3: the run emits exactly one output document for every terminal
\* document of the artifacts processed, whatever the depth of nesting and
\* the member order: the i-th output has the content of the i-th document
\* and its name, or its name with a collision suffix when an earlier output
\* took the name, exactly as for a document at the top level.
C3_NestingTransparent ==
    /\ Len(extracted_files) = Len(leaf_docs)
    /\ \A i \in 1..Len(extracted_files) :
         LET o == PathName(extracted_files[i])
             d == leaf_docs[i]
         IN  /\ extracted_files[i] = Join(OutputDir, o)
             /\ o \in DOMAIN outdir
             /\ outdir[o] = d.data
             /\ PathSuffix(o) = PathSuffix(d.name)
             /\ IF \E j \in 1..(i - 1) : PathName(extracted_files[j]) = d.name
                THEN \E k \in 1..i : o = PathStem(d.name) \o "_" \o ToString(k) \o PathSuffix(d.name)
                ELSE o = d.name

\* a document three containers deep (mail attachment, zip, gz) and one two
\* deep (tar in gz) came out under their own names
C3_Witness ==
    /\ "deep.xml" \in DOMAIN outdir
    /\ outdir["deep.xml"] = DocA
    /\ "in/m.eml" \in processed_files
    /\ \E i \in 1..Len(leaf_docs) :
         leaf_docs[i].name = "deep.xml" /\ extracted_files[i] = "extracted/deep.xml"
    /\ "in/g.tgz" \in processed_files
    /\ "page.html" \in DOMAIN outdir

(***************************************************************************)
(* Properties of the collision-safe writers.                               *)
(***************************************************************************)
\* every file of the directory is still there with the same content
Kept(dir, dir2) == \A n \in DOMAIN dir : n \in DOMAIN dir2 /\ dir2[n] = dir[n]

\* the list got one more entry: a path in dirname whose name was free in
\* dir; it is the name of the source, or, when that was taken, the stem of
\* the source, "_", a number and the suffix of the source
WroteFresh(dir, dir2, list, list2, dirname, source) ==
    LET o == PathName(list2[Len(list2)])
    IN  /\ Len(list2) = Len(list) + 1
        /\ list2[Len(list2)] = Join(dirname, o)
        /\ ~Exists(dir, o)
        /\ DOMAIN dir2 = DOMAIN dir \cup {o}
        /\ IF Exists(dir, PathName(source))
           THEN \E k \in 1..Cardinality(DOMAIN dir) :
                    o = PathStem(source) \o "_" \o ToString(k) \o PathSuffix(source)
           ELSE o = PathName(source)

\* C2: no call of _copy_html, _copy_xml or _move_file changes a file
\* written before, and every call that writes produces a path that did not
\* exist before the call, carrying a numeric suffix before the extension
\* when the source's name was taken.
C2_NoOverwrite ==
    [][ /\ Kept(outdir, outdir') /\ Kept(rua_dir, rua_dir') /\ Kept(ruf_dir, ruf_dir')
        /\ (extracted_files' # extracted_files =>
               WroteFresh(outdir, outdir', extracted_files, extracted_files', OutputDir, call_path'))
        /\ (rua_files' # rua_files =>
               WroteFresh(rua_dir, rua_dir', rua_files, rua_files', RuaDir, call_path'))
        /\ (ruf_files' # ruf_files =>
               WroteFresh(ruf_dir, ruf_dir', ruf_files, ruf_files', RufDir, call_path'))
        /\ (n_calls' # n_calls =>
               \/ extracted_files' # extracted_files \/ rua_files' # rua_files
               \/ ruf_files' # ruf_files \/ unclassified_files' # unclassified_files) ]_vars

\* three documents named report.xml were written to the output directory:
\* the first keeps its bytes, the others carry the suffixes _1 and _2
C2_Witness ==
    /\ DOMAIN outdir = {"report.xml", "report_1.xml", "report_2.xml"}
    /\ extracted_files = <<"extracted/report.xml", "extracted/report_1.xml", "extracted/report_2.xml">>
    /\ outdir["report.xml"] = DocA
    /\ outdir["report_1.xml"] = DocB
    /\ outdir["report_2.xml"] = DocA

(***************************************************************************)
(* Properties of the classifier.                                           *)
(***************************************************************************)
Entries == {class_log[i] : i \in 1..Len(class_log)}

\* the classification just made; every entry of the history was the latest
\* in the state its call led to
Latest == IF class_log = <<>> THEN {} ELSE {class_log[Len(class_log)]}

OnXmlTrack(e) == lower(PathSuffix(e.path)) = ".xml"

OnHtmlTrack(e) == lower(PathSuffix(e.path)) \in {".html", ".htm"}

SameTrack(a, b) ==
    \/ OnXmlTrack(a) /\ OnXmlTrack(b)
    \/ OnHtmlTrack(a) /\ OnHtmlTrack(b)

\* C4 as stated: two classifications of identical bytes on one track give
\* the identical verdict (the verdict is a function of the bytes only).
C4_BytesOnly ==
    \A a, b \in Entries : (a.data = b.data /\ SameTrack(a, b)) => a.verdict = b.verdict

\* C4 amended: two classifications of identical bytes give the identical
\* verdict on the XML track, on the HTML track when the two scores differ,
\* and on the HTML track when the lower-cased file names are equal; only on
\* a tie of the scores does the verdict depend on the file name.
C4_Deterministic ==
    \A a, b \in Entries :
        ( /\ a.data = b.data
          /\ \/ OnXmlTrack(a) /\ OnXmlTrack(b)
             \/ /\ OnHtmlTrack(a) /\ OnHtmlTrack(b)
                /\ \/ a.rua_score # a.ruf_score
                   \/ lower(PathName(a.path)) = lower(PathName(b.path)) )
        => a.verdict = b.verdict

\* the same bytes were classified under two names on each track: the XML
\* pair and an HTML pair with different scores got equal verdicts
C4_Witness ==
    \/ \E a, b \in Entries :
          /\ a.data = b.data /\ a.path # b.path
          /\ OnHtmlTrack(a) /\ OnHtmlTrack(b)
          /\ a.rua_score > a.ruf_score
          /\ FilenameVerdict(a.path) = "ruf" /\ FilenameVerdict(b.path) = "unclassified"
          /\ a.verdict = "rua" /\ b.verdict = "rua"
    \/ \E a, b \in Entries :
          /\ a.data = b.data /\ a.path # b.path
          /\ OnXmlTrack(a) /\ OnXmlTrack(b)
          /\ a.verdict = "ruf" /\ b.verdict = "ruf"

NameHas(e, kw) == Contains(lower(PathName(e.path)), kw)

\* C8: on the heuristic track the strictly higher score wins; on a tie
\* (0-0 included) a file name containing "aggregate" or "rua" gives rua,
\* else one containing "forensic", "ruf" or "failure" gives ruf, else the
\* document is unclassified; report_42.html without keywords is unclassified.
C8_HeuristicDecision ==
    \A e \in Latest : OnHtmlTrack(e) =>
        LET rua == e.rua_score
            ruf == e.ruf_score
        IN  /\ (rua > ruf => e.verdict = "rua")
            /\ (ruf > rua => e.verdict = "ruf")
            /\ (rua = ruf =>
                   e.verdict = IF NameHas(e, "aggregate") \/ NameHas(e, "rua") THEN "rua"
                               ELSE IF NameHas(e, "forensic") \/ NameHas(e, "ruf")
                                       \/ NameHas(e, "failure") THEN "ruf"
                               ELSE "unclassified")
            /\ (e.verdict = "rua" /\ rua # ruf => rua > 0)
            /\ (e.verdict = "ruf" /\ rua # ruf => ruf > 0)
            /\ (e.path = "extracted/report_42.html" /\ rua = 0 /\ ruf = 0
                   => e.verdict = "unclassified")

\* report_42.html without keywords came out unclassified, and the same
\* bytes named failure_7.html went to the forensic reports on the 0-0 tie
C8_Witness ==
    /\ \E e \in Entries :
          /\ e.path = "extracted/report_42.html" /\ e.data = HtmlDoc(NoKeywords, <<>>)
          /\ e.rua_score = 0 /\ e.ruf_score = 0
          /\ e.verdict = "unclassified"
          /\ unclassified_files = <<"extracted/report_42.html">>
    /\ \E e \in Entries :
          /\ e.path = "extracted/failure_7.html" /\ e.data = HtmlDoc(NoKeywords, <<>>)
          /\ e.rua_score = 0 /\ e.ruf_score = 0
          /\ e.verdict = "ruf"

\* some table of the document has more than 5 rows
BigTable(data) ==
    data.body.fmt = "html" /\ \E i \in 1..Len(data.body.tables) : Len(data.body.tables[i]) > 5

\* C9: ruaScore is the number of aggregate keywords in the lower-cased
\* text plus 2 exactly when a table has more than 5 rows, rufScore the
\* number of forensic keywords plus 2 exactly when the text holds all of
\* "received:", "from:" and "subject:"; a document with a 7-data-row table
\* scores ruaScore >= 2 and is an aggregate report when rufScore is lower.
C9_Boosts ==
    \A e \in Latest : OnHtmlTrack(e) =>
        LET text == lower(get_text(e.data))
            all3 == Contains(text, "received:") /\ Contains(text, "from:")
                    /\ Contains(text, "subject:")
        IN  /\ e.rua_score = KeywordMatches(rua_keywords, text)
                             + (IF BigTable(e.data) THEN 2 ELSE 0)
            /\ e.ruf_score = KeywordMatches(ruf_keywords, text) + (IF all3 THEN 2 ELSE 0)
            /\ (BigTable(e.data) => e.rua_score >= 2)
            /\ (BigTable(e.data) /\ e.ruf_score < e.rua_score => e.verdict = "rua")

\* the table of 7 data rows under the headers IP, Messages, DKIM, SPF, with
\* no keyword in the text and none in the file name, scored 2 to 0 and went
\* to the aggregate reports
C9_Witness ==
    \E e \in Entries :
        /\ e.data = HtmlDoc(NoKeywords, <<RecordsTable(7)>>)
        /\ e.path = "extracted/report_42.html"
        /\ e.rua_score = 2 /\ e.ruf_score = 0
        /\ e.verdict = "rua" /\ rua_files = <<"rua/report_42.html">>

\* the document has an element of this tag below its root
Below(e, tag) == \E i \in 1..Len(Descendants(e.data.body.root)) :
                    Descendants(e.data.body.root)[i].tag = tag

AuthOf(record) == SelectSeq(record.children, LAMBDA c : c.tag = "auth_results")

\* the text of the result child of a dkim or spf entry
ResultOf(entry) ==
    LET results == SelectSeq(entry.children, LAMBDA c : c.tag = "result")
    IN  IF Len(results) = 0 THEN "" ELSE results[1].text

\* the results of the tag entries of the record's auth_results, in document
\* order; none when the record has no auth_results
SubResults(record, tag) ==
    IF Len(AuthOf(record)) = 0 THEN <<>>
    ELSE LET entries == SelectSeq(AuthOf(record)[1].children, LAMBDA c : c.tag = tag)
         IN  [i \in 1..Len(entries) |-> ResultOf(entries[i])]

AnyPass(results) == \E i \in 1..Len(results) : results[i] = "pass"

FirstPass(results) == Len(results) > 0 /\ results[1] = "pass"

\* the pass flags of the records made from XML record elements
PassFlags(reports_data, sources) ==
    \A i \in 1..Len(reports_data) :
        sources[i].xml =>
            /\ reports_data[i].DKIM_Pass = AnyPass(SubResults(sources[i].record, "dkim"))
            /\ reports_data[i].SPF_Pass = FirstPass(SubResults(sources[i].record, "spf"))
            /\ (Len(AuthOf(sources[i].record)) = 0 =>
                    ~reports_data[i].DKIM_Pass /\ ~reports_data[i].SPF_Pass)

\* C5: for every record made from an XML record element, by RUAAnalyzer and
\* by DMARCAnalyzer alike, DKIM_Pass is true iff some dkim sub-result of the
\* record's auth_results is "pass", SPF_Pass is true iff the first spf
\* sub-result is "pass", and both are false when auth_results is absent.
C5_PassSemantics ==
    /\ PassFlags(rua_reports_data, rua_sources)
    /\ PassFlags(dmarc_reports_data, dmarc_sources)

\* a record made from an XML record with these dkim and spf sub-results
\* carries these flags
Carries(reports_data, sources, dkims, spfs, dkim_pass, spf_pass) ==
    \E i \in 1..Len(reports_data) :
        /\ sources[i].xml
        /\ SubResults(sources[i].record, "dkim") = dkims
        /\ SubResults(sources[i].record, "spf") = spfs
        /\ reports_data[i].DKIM_Pass = dkim_pass
        /\ reports_data[i].SPF_Pass = spf_pass

\* both analyzers have processed dkim [fail, pass, fail] with spf [fail, pass]
\* and with spf [pass, fail], and RUAAnalyzer a record without auth_results
C5_Witness ==
    /\ Carries(rua_reports_data, rua_sources,
               <<"fail", "pass", "fail">>, <<"fail", "pass">>, TRUE, FALSE)
    /\ Carries(rua_reports_data, rua_sources,
               <<"fail", "pass", "fail">>, <<"pass", "fail">>, TRUE, TRUE)
    /\ Carries(dmarc_reports_data, dmarc_sources,
               <<"fail", "pass", "fail">>, <<"fail", "pass">>, TRUE, FALSE)
    /\ \E i \in 1..Len(rua_reports_data) :
          /\ rua_sources[i].xml
          /\ Len(AuthOf(rua_sources[i].record)) = 0
          /\ ~rua_reports_data[i].DKIM_Pass /\ ~rua_reports_data[i].SPF_Pass

FailsAFlag(r) == ~r.SPF_Pass \/ ~r.DKIM_Pass

\* C6: after any sequence of RUAAnalyzer.add_report calls, failed_records is
\* the subsequence of reports_data, in the same order, of the records with
\* SPF_Pass false or DKIM_Pass false.
C6_FailedSubsequence ==
    rua_failed_records = SelectSeq(rua_reports_data, FailsAFlag)

InFailed(r) == \E j \in 1..Len(rua_failed_records) : rua_failed_records[j] = r

\* the report R1 (count 5, SPF pass, DKIM fail) is tracked as failed, an HTML
\* table has given records, and the call on the report R3 has failed after
\* its first two records, of which the one passing both is not tracked
C6_Witness ==
    /\ \E i \in 1..Len(rua_reports_data) :
          /\ rua_reports_data[i].Report_ID = "R1"
          /\ rua_reports_data[i].Count = 5
          /\ rua_reports_data[i].SPF_Pass /\ ~rua_reports_data[i].DKIM_Pass
          /\ InFailed(rua_reports_data[i])
    /\ \E i \in 1..Len(rua_reports_data) :
          /\ ~rua_sources[i].xml
          /\ rua_reports_data[i].SPF_Pass /\ rua_reports_data[i].DKIM_Pass
          /\ ~InFailed(rua_reports_data[i])
    /\ \E i \in 1..Len(rua_reports_data) :
          /\ rua_reports_data[i].Report_ID = "R3"
          /\ rua_reports_data[i].SPF_Pass /\ rua_reports_data[i].DKIM_Pass
          /\ ~InFailed(rua_reports_data[i])
    /\ Cardinality({i \in 1..Len(rua_reports_data) : rua_reports_data[i].Report_ID = "R3"}) = 2

(***************************************************************************)
(* Properties of the forensic analyzer.                                    *)
(***************************************************************************)
\* C7: a record of the HTML track made from the failure text
\* "SPF permerror; DKIM fail" has SPF_Failed and DKIM_Failed true, and a
\* record of the HTML track with both flags true has Auth_Failure
\* "SPF, DKIM".
C7_SpfThenDkim ==
    \A i \in 1..Len(ruf_reports_data) :
        IsHtmlExt(ruf_sources[i].path) =>
            /\ (Contains(get_text(ruf_sources[i].data), "SPF permerror; DKIM fail") =>
                    ruf_reports_data[i].SPF_Failed /\ ruf_reports_data[i].DKIM_Failed)
            /\ (ruf_reports_data[i].SPF_Failed /\ ruf_reports_data[i].DKIM_Failed =>
                    ruf_reports_data[i].Auth_Failure = "SPF, DKIM")

(***************************************************************************)
(* Parse failures in the classifier.                                       *)
(***************************************************************************)
\* the markup of the file fails to parse on the track its extension selects
Unparsable(path, data) ==
    \/ lower(PathSuffix(path)) = ".xml" /\ ~ParsesAsXml(data)
    \/ lower(PathSuffix(path)) \in {".html", ".htm"} /\ ~ParsesAsHtml(data)

Recorded == Len(rua_files) + Len(ruf_files) + Len(unclassified_files)

\* C11: a call of _classify_file on a file whose XML or HTML markup does not
\* parse ends normally with the file appended to unclassified_files and
\* nothing copied; every call, those after a failing one included, adds
\* exactly one entry to one of the three lists, so the loop of classify_all
\* goes through the remaining files.
C11_ParseErrorContained ==
    [][ /\ Len(class_log') = Len(class_log) + 1
           => (LET e == class_log'[Len(class_log')]
               IN  Unparsable(e.path, e.data)
                   => /\ e.verdict = "unclassified"
                      /\ unclassified_files' = Append(unclassified_files, e.path)
                      /\ UNCHANGED <<rua_dir, ruf_dir, rua_files, ruf_files>>)
        /\ Len(class_log') = Len(class_log) + 1 => Recorded' = Recorded + 1 ]_vars

\* broken.xml and rejected.html were classified first and recorded as
\* unclassified, and good.xml of the same directory then went to the
\* aggregate reports
C11_Witness ==
    /\ Len(class_log) = 3
    /\ class_log[1].path = "extracted/broken.xml" /\ ~ParsesAsXml(class_log[1].data)
    /\ class_log[2].path = "extracted/rejected.html" /\ ~ParsesAsHtml(class_log[2].data)
    /\ class_log[3].path = "extracted/good.xml"
    /\ unclassified_files = <<"extracted/broken.xml", "extracted/rejected.html">>
    /\ rua_files = <<"rua/good.xml">>

(***************************************************************************)
(* One forensic record per document.                                       *)
(***************************************************************************)
\* the file the latest add_report call was given
Given == CHOOSE f \in report_input : f.path = call_path

\* an existing file with one of the extensions add_report supports
Supported(f) == FileExists(f) /\ lower(PathSuffix(f.path)) \in {".xml", ".html", ".htm"}

\* the record _process_xml_report makes of a document without any field
SparseRecord(now) ==
    [Report_ID |-> "Unknown", Feedback_Type |-> "auth-failure", User_Agent |-> "Unknown",
     Version |-> "Unknown", Source_IP |-> "Unknown", Authentication_Results |-> "",
     Delivery_Result |-> "Unknown", Auth_Failure |-> "Unknown", Reported_Domain |-> "Unknown",
     Arrival_Date |-> "Unknown", From |-> "Unknown", To |-> "Unknown", Subject |-> "Unknown",
     Date |-> "Unknown", Message_ID |-> "Unknown", DMARC_Policy |-> "Unknown",
     SPF_Failed |-> FALSE, DKIM_Failed |-> FALSE, Processed_Date |-> now]

\* C12 as stated: every RUFAnalyzer.add_report call on an existing .xml,
\* .html or .htm file makes reports_data longer by exactly one record.
C12_ExactlyOne ==
    [][ n_calls' = n_calls + 1 =>
          (Supported(Given') => Len(ruf_reports_data') = Len(ruf_reports_data) + 1) ]_vars

\* C12 amended: a call on an existing .xml, .html or .htm file whose
\* markup parses appends exactly one record and leaves the earlier records
\* as they were, a document without any field giving the record of the
\* defaults; a call on a file whose markup does not parse, on a missing file
\* or on another extension leaves reports_data unchanged.
C12_OnePerParsedDocument ==
    [][ n_calls' = n_calls + 1 =>
          LET f == Given'
          IN  IF Supported(f) /\ ~Unparsable(f.path, f.data)
              THEN /\ Len(ruf_reports_data') = Len(ruf_reports_data) + 1
                   /\ SubSeq(ruf_reports_data', 1, Len(ruf_reports_data)) = ruf_reports_data
                   /\ f.path = "ruf/sparse.xml" =>
                          \E now \in Clock :
                              ruf_reports_data'[Len(ruf_reports_data')] = SparseRecord(now)
              ELSE ruf_reports_data' = ruf_reports_data ]_vars

\* sparse.xml gave one record made of the defaults, and broken.xml, given
\* next, added nothing
C12_Witness ==
    /\ n_calls = 2
    /\ call_path = "ruf/broken.xml"
    /\ Len(ruf_reports_data) = 1
    /\ ruf_sources[1].path = "ruf/sparse.xml"
    /\ ruf_reports_data[1].Report_ID = "Unknown"
    /\ ruf_reports_data[1].SPF_Failed = FALSE

(***************************************************************************)
(* The two record schemas.                                                 *)
(***************************************************************************)
\* the 16 keys of an AggregateRecord
AggregateKeys ==
    {"Report_ID", "Provider", "Date_Begin", "Date_End", "Domain", "Source_IP", "Count",
     "Disposition", "DKIM_Result", "SPF_Result", "DKIM_Pass", "SPF_Pass", "Header_From",
     "Envelope_From", "Policy_P", "Policy_SP"}

\* the 19 keys of a ForensicRecord
ForensicKeys ==
    {"Report_ID", "Feedback_Type", "User_Agent", "Version", "Source_IP",
     "Authentication_Results", "Delivery_Result", "Auth_Failure", "Reported_Domain",
     "Arrival_Date", "From", "To", "Subject", "Date", "Message_ID", "DMARC_Policy",
     "SPF_Failed", "DKIM_Failed", "Processed_Date"}

\* C13: every record of RUAAnalyzer.reports_data, made from an XML record or
\* from an HTML row, has exactly the 16 AggregateRecord keys, and every
\* record of RUFAnalyzer.reports_data, made from an XML or an HTML
\* document, has exactly the 19 ForensicRecord keys, whatever fields the
\* document lacks.
C13_NoFieldDropped ==
    /\ \A i \in 1..Len(rua_reports_data) : DOMAIN rua_reports_data[i] = AggregateKeys
    /\ \A i \in 1..Len(ruf_reports_data) : DOMAIN ruf_reports_data[i] = ForensicKeys

\* the aggregate analyzer made a record of the XML record with an empty row
\* and one of the row of the three-column HTML table, and the forensic
\* analyzer made a record of the same HTML file, which has none of the
\* forensic fields
C13_Witness ==
    /\ Len(rua_reports_data) = 2
    /\ \E i, j \in 1..2 :
          /\ rua_sources[i].xml /\ rua_reports_data[i].Source_IP = ""
          /\ ~rua_sources[j].xml /\ rua_reports_data[j].Header_From = "Unknown"
    /\ Len(ruf_reports_data) = 1
    /\ ruf_sources[1].path = "mix/rows.html"
    /\ ruf_reports_data[1].From = "Unknown"
    /\ ruf_reports_data[1].Source_IP = "Unknown"

(***************************************************************************)
(* Placeholders of the heuristic-HTML aggregate extraction.                *)
(***************************************************************************)
\* the HTML report of the directory the aggregate analyzers are given
HtmlReport ==
    CHOOSE f \in report_input : FileExists(f) /\ lower(PathSuffix(f.path)) \in {".html", ".htm"}

\* the field the header loop of _parse_html_row stores a column in
FieldOf(header_lower) ==
    IF Contains(header_lower, "ip") \/ Contains(header_lower, "source") THEN "Source_IP"
    ELSE IF Contains(header_lower, "count") \/ Contains(header_lower, "messages") THEN "Count"
    ELSE IF Contains(header_lower, "dkim") THEN "DKIM_Result"
    ELSE IF Contains(header_lower, "spf") THEN "SPF_Result"
    ELSE IF Contains(header_lower, "disposition") \/ Contains(header_lower, "action")
    THEN "Disposition"
    ELSE IF Contains(header_lower, "from")
    THEN (IF Contains(header_lower, "header") THEN "Header_From"
          ELSE IF Contains(header_lower, "envelope") THEN "Envelope_From"
          ELSE "Header_From")
    ELSE "none"

\* the row has a cell under a header of this field
HasColumn(src, field) ==
    \E k \in 1..Min(Len(src.headers), Len(src.row)) : FieldOf(lower(src.headers[k])) = field

\* C14: in every record made from an HTML aggregate report, a string field
\* whose value is not found in the document (no match of the field's
\* pattern in the text, no table column for the field) is the literal
\* placeholder "Unknown".
C14_UnknownPlaceholder ==
    \A i \in 1..Len(rua_reports_data) : ~rua_sources[i].xml =>
        LET r == rua_reports_data[i]
            src == rua_sources[i]
            text == get_text(HtmlReport.data)
        IN  /\ ~re_search(ReportIdPattern, text, TRUE).ok => r.Report_ID = "Unknown"
            /\ ~re_search(OrganizationPattern, text, TRUE).ok => r.Provider = "Unknown"
            /\ ~re_search(DateRangePattern, text, FALSE).ok
                   => r.Date_Begin = "Unknown" /\ r.Date_End = "Unknown"
            /\ ~re_search(DomainPattern, text, TRUE).ok => r.Domain = "Unknown"
            /\ \A field \in {"Source_IP", "Disposition", "DKIM_Result", "SPF_Result",
                              "Header_From", "Envelope_From"} :
                   ~HasColumn(src, field) => r[field] = "Unknown"

(***************************************************************************)
(* Failing artifacts and their siblings.                                   *)
(***************************************************************************)
RECURSIVE Artifacts(_, _)
RECURSIVE MemberArtifacts(_, _)

\* the artifacts among the members[i..] of a container and below them
MemberArtifacts(members, i) ==
    IF i > Len(members) THEN 0
    ELSE (IF members[i].multipart \/ members[i].name = "" THEN 0
          ELSE IF members[i].data.kind = "rfc822" THEN 0
          ELSE Artifacts(PathName(members[i].name), members[i].data))
         + MemberArtifacts(members, i + 1)

\* the number of artifacts an artifact stands for: itself and, when it is
\* a container that opens, the artifacts of its members; a container that
\* fails to open, and a mail part that cannot be read, stand for no more
Artifacts(name, data) ==
    LET ext == lower(PathSuffix(name))
    IN  1 + (CASE ext = ".zip" -> IF OpensAsZip(data) THEN MemberArtifacts(data.members, 1) ELSE 0
               [] ext = ".gz" -> IF OpensAsGz(data)
                                 THEN Artifacts(PathStem(name), data.members[1].data) ELSE 0
               [] ext \in {".tar", ".tgz"} ->
                      IF OpensAsTar(data) THEN MemberArtifacts(TarMembers(data), 1) ELSE 0
               [] ext = ".eml" -> MemberArtifacts(MailParts(data), 1)
               [] OTHER -> 0)

RECURSIVE ArtifactsOf(_)
ArtifactsOf(files) ==
    IF files = {} THEN 0
    ELSE LET f == CHOOSE g \in files : TRUE
         IN  Artifacts(PathName(f.path), f.data) + ArtifactsOf(files \ {f})

\* C15: a container that fails to open, or a mail part that cannot be read,
\* is skipped without ending the walk: whatever was processed, every
\* artifact of the processed top-level files other than the failing ones'
\* contents, the siblings of a failing artifact in its container included,
\* went through the dispatch of _process_file once.
C15_SiblingsDispatched ==
    /\ \A p \in DOMAIN dispatched : dispatched[p] = 1
    /\ Cardinality(DOMAIN dispatched)
         = ArtifactsOf({f \in InputFiles : f.path \in processed_files})

(***************************************************************************)
(* The message count.                                                      *)
(***************************************************************************)
\* the count text of an XML record, "0" when the row has no count
CountText(record) == _safe_find_xml(find_desc(record, "row"), "count", "0")

\* the columns of an HTML row that _parse_html_row stores as the count
CountColumns(src) ==
    {k \in 1..Min(Len(src.headers), Len(src.row)) : FieldOf(lower(src.headers[k])) = "Count"}

\* the text of the last such column, as the header loop leaves it
CountCell(src) == RemoveCommas(strip(src.row[Max(CountColumns(src))].text))

\* the records the latest call appended, and what they were made from
Added == SubSeq(rua_reports_data', Len(rua_reports_data) + 1, Len(rua_reports_data'))

AddedFrom == SubSeq(rua_sources', Len(rua_sources) + 1, Len(rua_sources'))

\* C16: a call of RUAAnalyzer.add_report that extracts records extracts all
\* of them: an XML report whose records all have a row gives one record
\* per record element, an element whose count is no number giving
\* Count = 0, and an HTML row whose count cell is no number gives a record
\* with Count = 0.
C16_CountDefaultsToZero ==
    [][ (n_calls' = n_calls + 1 /\ rua_reports_data' # rua_reports_data) =>
          LET f == Given'
              records == findall_desc(f.data.body.root, "record")
          IN  /\ ( /\ lower(PathSuffix(f.path)) = ".xml"
                   /\ \A i \in 1..Len(records) : ~IsNone(find_desc(records[i], "row")) )
                 => /\ Len(Added) = Len(records)
                    /\ \A i \in 1..Len(records) :
                          ~IsIntLiteral(CountText(records[i])) => Added[i].Count = 0
              /\ \A i \in 1..Len(Added) :
                    ( /\ ~AddedFrom[i].xml
                      /\ CountColumns(AddedFrom[i]) # {}
                      /\ ~IsIntLiteral(CountCell(AddedFrom[i])) )
                    => Added[i].Count = 0 ]_vars

\* C17: every record of RUAAnalyzer.reports_data has Count >= 0, whatever
\* count text the XML row or the HTML cell carries.
C17_CountNonNegative ==
    \A i \in 1..Len(rua_reports_data) : rua_reports_data[i].Count >= 0

(***************************************************************************)
(* Running the extraction again.                                           *)
(***************************************************************************)
\* C18: a run of extract_all over the unchanged input directory that is not
\* the first one for the output directory, by the same FileExtractor or by
\* a new one, leaves the output directory with the same set of documents.
\* (Every walk emits a document: the output directory is not empty once a
\* run was made.)
C18_RerunIdempotent ==
    [][ (n_calls' = n_calls + 1 /\ call_path' = InputRoot /\ DOMAIN outdir # {})
          => DOMAIN outdir' = DOMAIN outdir ]_vars

(***************************************************************************)
(* Artifacts the extension table does not name.                            *)
(***************************************************************************)
\* the named, non-multipart members of a container
NamedMembers(data) ==
    {data.members[i].name : i \in {k \in 1..Len(data.members) :
                                      ~data.members[k].multipart /\ data.members[k].name # ""}}

\* every named member of the file went through the dispatch of
\* _process_file under a path of its own
MembersDispatched(f) ==
    \A name \in NamedMembers(f.data) :
        \E p \in DOMAIN dispatched : p \notin TopLevelPaths /\ PathName(p) = PathName(name)

\* C19: a processed artifact whose extension is missing or not in the
\* table, whose first 1000 chars hold neither an HTML marker nor an XML
\* declaration, and whose bytes are a valid zip or tar archive, was unpacked:
\* its members went through the dispatch.
C19_UnlabelledArchiveUnpacked ==
    \A f \in InputFiles :
        ( /\ f.path \in processed_files
          /\ lower(PathSuffix(f.path)) \notin TerminalExts \cup ContainerExts \cup {".msg"}
          /\ ~LooksHtml(SniffPrefix(f.data)) /\ ~LooksXml(SniffPrefix(f.data))
          /\ (OpensAsZip(f.data) \/ OpensAsTar(f.data)) )
        => MembersDispatched(f)

\* C20: a processed artifact with the extension .msg was walked as a mail
\* container: each of its non-multipart parts carrying a filename went
\* through the dispatch.
C20_MsgLikeEml ==
    \A f \in InputFiles :
        (f.path \in processed_files /\ lower(PathSuffix(f.path)) = ".msg")
        => MembersDispatched(f)

(***************************************************************************)
(* The key of the duplicate-processing set.                                *)
(***************************************************************************)
\* C21: no file goes through the dispatch of _process_file under two path
\* strings: of the paths that entered the dispatch no two denote the same
\* file.
C21_CanonicalKey ==
    \A p, q \in DOMAIN dispatched : resolve(p) = resolve(q) => p = q

(***************************************************************************)
(* Where a classified document is afterwards.                              *)
(***************************************************************************)
\* the directory of a verdict
DirOf(verdict) == IF verdict = "rua" THEN rua_dir ELSE ruf_dir

\* the input directory still has a file under the path
InInput(path) == \E f \in class_input : f.path = path

\* C22: every document classified rua or ruf is in the directory of its
\* kind and no longer in the input directory; every unclassified document
\* is in the input directory with its bytes and in unclassified_files.
C22_Relocated ==
    \A i \in 1..Len(class_log) :
        LET e == class_log[i]
        IN  IF e.verdict \in {"rua", "ruf"}
            THEN /\ \E n \in DOMAIN DirOf(e.verdict) : DirOf(e.verdict)[n] = e.data
                 /\ ~InInput(e.path)
            ELSE /\ \E f \in class_input : f.path = e.path /\ f.data = e.data
                 /\ \E j \in 1..Len(unclassified_files) : unclassified_files[j] = e.path

(***************************************************************************)
(* The order of the stages of run_full_pipeline.                           *)
(***************************************************************************)
\* the steps a run with skip_extraction = false may take
StageOrder ==
    {<<"start", "extracted">>, <<"extracted", "returned">>, <<"extracted", "classify">>,
     <<"classify", "analyze">>, <<"analyze", "done">>}

\* C23: a run with skip_extraction = false goes through extraction,
\* classification and analysis in this order; when extraction has emitted a
\* document the run reaches the end with rua_files given to RUAAnalyzer and
\* ruf_files to RUFAnalyzer; it stops after extraction only when nothing
\* was extracted.
C23_StagesInOrder ==
    /\ [][ (~skip_extraction /\ stage' # stage) => <<stage, stage'>> \in StageOrder ]_vars
    /\ (~skip_extraction /\ stage = "extracted" /\ extracted_files # <<>>)
          ~> (stage = "done" /\ rua_given = rua_files /\ ruf_given = ruf_files)
    /\ [](stage = "returned" => extracted_files = <<>>)

(***************************************************************************)
(* The headers of a forensic XML report.                                   *)
(***************************************************************************)
\* the header fields with a dedicated element and a line in original_message
HeaderTags == [From |-> "from", To |-> "to", Subject |-> "subject"]

\* the text of the first element of the tag below the root, "" for none
ElementText(root, tag) ==
    IF IsNone(find_desc(root, tag)) THEN "" ELSE find_desc(root, tag).text

\* C24: in every record made from an XML report, From, To and Subject hold
\* the text of the dedicated element when the report has one, and the
\* value of the header line of original_message (or "Unknown") only when
\* it has none.
C24_DedicatedElementFirst ==
    \A i \in 1..Len(ruf_reports_data) :
        lower(PathSuffix(ruf_sources[i].path)) = ".xml" =>
            \A h \in DOMAIN HeaderTags :
                LET root == ruf_sources[i].data.body.root
                    own  == ElementText(root, HeaderTags[h])
                IN  ruf_reports_data[i][h] =
                        IF own # "" THEN own
                        ELSE Matched(XmlHeaderPattern(h),
                                     ElementText(root, "original_message"), "Unknown")

\* the text reports a pass for SPF and a failure for DKIM
OnlyDkimFails(text) == Contains(lower(text), "spf pass") /\ Contains(lower(text), "dkim fail")

\* C25: in every record of the HTML track SPF_Failed is true only if the
\* text holds "spf" and a fail word, DKIM_Failed only if it holds "dkim" and
\* a fail word, and a text that reports an SPF pass and a DKIM failure gives
\* SPF_Failed = false.
C25_FlagsIndependent ==
    \A i \in 1..Len(ruf_reports_data) :
        IsHtmlExt(ruf_sources[i].path) =>
            LET text == get_text(ruf_sources[i].data)
            IN  /\ (ruf_reports_data[i].SPF_Failed =>
                        Contains(lower(text), "spf") /\ MentionsFailure(text))
                /\ (ruf_reports_data[i].DKIM_Failed =>
                        Contains(lower(text), "dkim") /\ MentionsFailure(text))
                /\ (OnlyDkimFails(text) => ~ruf_reports_data[i].SPF_Failed)

(***************************************************************************)
(* The rows of the tables of an HTML aggregate report.                     *)
(***************************************************************************)
\* the tables of a document whose th cells hold a keyword
RecordTables(data) ==
    SelectSeq(find_all_tables(data), LAMBDA t : LooksLikeRecords(TableHeaders(t, 1)))

\* the rows of a table after its first row that have at least n cells
DataRows(table, n) == SelectSeq(SubSeq(table, 2, Len(table)), LAMBDA row : Len(row) >= n)

RECURSIVE RowsOf(_, _, _)
\* the number of such rows in tables[t..]
RowsOf(tables, t, n) ==
    IF t > Len(tables) THEN 0
    ELSE Len(DataRows(tables[t], n)) + RowsOf(tables, t + 1, n)

\* the latest call was made on an HTML file and appended records
HtmlRecordsAdded ==
    /\ n_calls' = n_calls + 1
    /\ rua_reports_data' # rua_reports_data
    /\ IsHtmlExt(call_path')

\* C26 as stated: a call of RUAAnalyzer.add_report on an HTML report appends
\* one record for every row after the header row of every table whose header
\* holds a keyword, whatever the number of cells of the row.
C26_EveryDataRow ==
    [][ HtmlRecordsAdded => Len(Added) = RowsOf(RecordTables(Given'.data), 1, 0) ]_vars

\* C26 amended: the call appends one record for every such row that has at
\* least three cells; a row with fewer cells gives no record.
C26_RowsOfThreeCells ==
    [][ HtmlRecordsAdded => Len(Added) = RowsOf(RecordTables(Given'.data), 1, MinCells) ]_vars

\* one call on rua/table.html: its table has six rows after the header, one
\* of them with two cells, and five records were appended
C26_Witness ==
    /\ n_calls = 1
    /\ call_path = "rua/table.html"
    /\ RowsOf(RecordTables(Given.data), 1, 0) = 6
    /\ Len(rua_reports_data) = 5
    /\ \A i \in 1..5 : ~rua_sources[i].xml /\ Len(rua_sources[i].row) >= MinCells

(***************************************************************************)
(* classify_all records every file once.                                   *)
(***************************************************************************)
\* what the latest call appended to a list
NewOf(list, list2) == SubSeq(list2, Len(list) + 1, Len(list2))

\* a path of a kind directory that comes from the file: its name, or its
\* stem with a numeric suffix, and its bytes
ComesFrom(dest, dir, f) ==
    /\ PathName(dest) \in DOMAIN dir
    /\ dir[PathName(dest)] = f.data
    /\ \/ PathName(dest) = PathName(f.path)
       \/ \E k \in 1..MaxCalls :
             PathName(dest) = PathStem(f.path) \o "_" \o ToString(k) \o PathSuffix(f.path)

\* the number of entries the latest call made for the file in the three lists
EntriesFor(f) ==
    LET rua == NewOf(rua_files, rua_files')
        ruf == NewOf(ruf_files, ruf_files')
        un  == NewOf(unclassified_files, unclassified_files')
    IN  Cardinality({j \in 1..Len(rua) : ComesFrom(rua[j], rua_dir', f)})
        + Cardinality({j \in 1..Len(ruf) : ComesFrom(ruf[j], ruf_dir', f)})
        + Cardinality({j \in 1..Len(un) : un[j] = f.path})

\* C27: a call of classify_all on the input directory records every file
\* of the directory in exactly one of rua_files, ruf_files and
\* unclassified_files, the files whose classification or copy raised
\* included: it appends as many entries as the directory has files, one
\* for each file.
C27_EveryFileOnce ==
    [][ (n_calls' = n_calls + 1 /\ call_path' = OutputDir) =>
          /\ Recorded' = Recorded + Cardinality(class_input)
          /\ \A f \in class_input : EntriesFor(f) = 1 ]_vars

\* classify_all was called twice on a directory holding a report, a file
\* whose markup does not parse and a report the copy fails on: the report
\* is in rua_files twice, the other two in unclassified_files twice
C27_Witness ==
    /\ n_calls = 2
    /\ {f.path : f \in class_input}
         = {"extracted/good.xml", "extracted/broken.xml", "extracted/locked.xml"}
    /\ rua_files = <<"rua/good.xml", "rua/good_1.xml">>
    /\ ruf_files = <<>>
    /\ Len(unclassified_files) = 4
    /\ \A p \in {"extracted/broken.xml", "extracted/locked.xml"} :
          Cardinality({j \in 1..4 : unclassified_files[j] = p}) = 2

(***************************************************************************)
(* What the extractor emits and what the classifier reads.                 *)
(***************************************************************************)
\* the name with the extension of the kind the sniffing found
ProperName(name, data) ==
    name \o (IF LooksHtml(SniffPrefix(data)) THEN ".html" ELSE ".xml")

\* C28: every path of extracted_files ends in .xml, .html or .htm, the
\* statistics count every emitted file as an HTML or an XML file, and an
\* emitted document whose name has no such extension is classified as it
\* would be under the name with the extension.
C28_EmittedRecognized ==
    /\ \A i \in 1..Len(extracted_files) :
          lower(PathSuffix(extracted_files[i])) \in TerminalExts
    /\ LET stats == get_statistics(ExtractorState)
       IN  stats.html_files + stats.xml_files = stats.total_files_extracted
    /\ \A name \in DOMAIN outdir :
          (lower(PathSuffix(name)) \notin TerminalExts /\ outdir[name].body.fmt # "none") =>
              report_type_of(Join(OutputDir, name), outdir[name])
                = report_type_of(Join(OutputDir, ProperName(name, outdir[name])), outdir[name])

(***************************************************************************)
(* A document whose processing raises.                                     *)
(***************************************************************************)
\* the try block of RUAAnalyzer.add_report ends in the except branch
ProcessingRaised(a, f) ==
    LET file_ext == lower(PathSuffix(f.path))
    IN  /\ FileExists(f)
        /\ \/ file_ext = ".xml" /\ ~_process_xml_report(a, f.path, f.data).ok
           \/ file_ext \in {".html", ".htm"} /\ ~_process_html_report(a, f.path, f.data).ok

\* add_report returns before the try block or in its else branch
NotProcessed(f) ==
    \/ ~FileExists(f)
    \/ lower(PathSuffix(f.path)) \notin {".xml", ".html", ".htm"}

\* C29: a call of RUAAnalyzer.add_report whose processing raises, or whose
\* file is missing or has an unsupported extension, leaves reports_data and
\* failed_records as they were before the call.
C29_AllOrNothing ==
    [][ ( /\ n_calls' = n_calls + 1
          /\ ProcessingRaised(RuaState, Given') \/ NotProcessed(Given') )
        => /\ rua_reports_data' = rua_reports_data
           /\ rua_failed_records' = rua_failed_records ]_vars

(***************************************************************************)
(* A directory that does not exist.                                        *)
(***************************************************************************)
InitMissing ==
    /\ Fresh
    /\ walk \in Walks
    /\ class_input = OddDir
    /\ report_input = {}

NextMissing ==
    \/ \E input_dir \in {InputRoot, MissingRoot} : ExtractAll(input_dir)
    \/ \E f \in class_input : ClassifyFile(f)
    \/ ClassifyAllCall(MissingOutput)

\* an extractor and a classifier that have worked or not, called on
\* directories that do not exist
SpecMissing == InitMissing /\ [][NextMissing]_vars

\* C30: extract_all on a directory that does not exist returns [] and
\* leaves processed_files and extracted_files as they were; classify_all on
\* a directory that does not exist returns the three empty lists and leaves
\* rua_files, ruf_files and unclassified_files as they were.
C30_MissingDirectory ==
    [][ (n_calls' = n_calls + 1) =>
          /\ (call_path' = MissingRoot) =>
                /\ extract_returned' = <<>>
                /\ processed_files' = processed_files
                /\ extracted_files' = extracted_files
          /\ (call_path' = MissingOutput) =>
                /\ classify_returned' = NoneClassified
                /\ rua_files' = rua_files
                /\ ruf_files' = ruf_files
                /\ unclassified_files' = unclassified_files ]_vars

\* extract_all was called on the missing directory after a run that
\* emitted documents, by the side of a classifier that has classified
C30_Witness ==
    /\ call_path = MissingRoot
    /\ extracted_files # <<>>
    /\ processed_files # {}
    /\ extract_returned = <<>>
    /\ Len(rua_files) + Len(ruf_files) + Len(unclassified_files) > 0
    /\ classify_returned = NoneClassified

====
